---- MODULE Spec2Model ----
(***************************************************************************)
(* Row-level-security and participant-materialization model of the         *)
(* voicementor2 database (supabase/migrations) as a state machine.         *)
(*                                                                         *)
(* The state is the content of the tables; one action is one request       *)
(* (one SQL statement executed by PostgREST in its own transaction) or     *)
(* one administrative script.  For each kind of request an operator        *)
(* computes, from the tables as they are, the outcome of the request and   *)
(* the tables it leaves; the action of the request installs them.  A       *)
(* statement that raises an error rolls back whole.                        *)
(***************************************************************************)
EXTENDS Integers, FiniteSets, Sequences, Bags, TLC

\* ---------------------------------------------------------------- bounds
MaxConversations == 1
MaxMessages == 1
MaxBookmarks == 1
MaxFavorites == 1
MaxProfileUpdates == 1
MaxFolders == 1
MaxFolderItems == 1
MaxObjects == 1
MaxSignUps == 1
MaxSends == 1
MaxFlows == 2
MaxViews == 1
MaxSessions == 2
MaxTicks == 2

\* ------------------------------------------------------------- universe
NULL == "NULL"
\* auth.users ids: a client, a mentor, a director, and the director that the
\* seed scripts call 'Greg Bottaro'.
Users == {"A", "B", "D", "G"}
Roles == {"client", "mentor", "training_director"}
GregName == "Greg Bottaro"
Names == {GregName, "other"}
ConvIds == 1..MaxConversations
MsgIds == 1..MaxMessages
BookmarkIds == 1..MaxBookmarks
Timestamps == {0, 1}
FolderIds == 1..MaxFolders
\* Identities that register after the seed.
NewUsers == {"N", "M"}
\* storage.buckets: 'voices' and a bucket the migrations give no policy.
Buckets == {"voices", "avatars"}
\* The file name under the conversation folder of a path.
ObjectNames == 1..MaxObjects

VARIABLES
    profiles,                   \* [id -> [role, mentor_id, director_id, full_name]]
    conversations,              \* set of [id, client_id, mentor_id]
    conversation_participants,  \* set of [conversation_id, user_id, role]
    audio_messages,             \* set of [id, conversation_id, sender_id]
    bookmarks,                  \* set of [id, message_id, user_id, timestamp_sec]
    favorites,                  \* set of [user_id, message_id]
    profileUpdates,             \* number of profile changes so far (bounded)
    auth_users,                 \* set of identity ids (auth.users)
    folders,                    \* set of [id, owner_id]
    folder_items,               \* set of [folder_id, message_id]
    storage_objects,            \* set of [bucket_id, folder, name, owner]
    sends,                      \* voice sends between upload and insert:
                                \* set of [user, conversationId, messageId]
    flows,                      \* the Messages views that were mounted: sequence
                                \* of [user, contactId, pc, conversationId,
                                \*     subscription, joined, before, delivered,
                                \*     messages]
    authStore,                  \* useAuthStore: [session, user, profile, isLoading,
                                \*     fetching, signingOut, sessions]
    recorder,                   \* the mounted AudioRecorder or MessageInput
    views                       \* the Conversation views that were mounted:
                                \* sequence of [user, conversationId, pc, snapshot,
                                \*     subscription, joined, before, delivered,
                                \*     messages]

vars == <<profiles, conversations, conversation_participants, audio_messages,
          bookmarks, favorites, profileUpdates, auth_users, folders, folder_items,
          storage_objects, sends, flows, views, authStore, recorder>>

\* The tables of the database.
dbVars == <<profiles, conversations, conversation_participants, audio_messages,
            bookmarks, favorites, profileUpdates, auth_users, folders, folder_items,
            storage_objects>>

\* The state of the client application (components, stores, requests in flight).
\* The stores and components that hold no rows of the database.
componentVars == <<authStore, recorder>>

clientVars == <<sends, flows, views, componentVars>>

\* The tables of identities, folders and stored objects.
lifecycleVars == <<auth_users, folders, folder_items, storage_objects>>

\* ------------------------------------------------------------- helpers
\* A definition X_Suffix standing before X is a deliberately different variant
\* of X (a policy or a statement as it could have been written); the
\* properties below hold of X and must fail of the variant.
Min(S) == CHOOSE x \in S : \A y \in S : x <= y

\* gen_random_uuid(): an id no row of the table has.
FreshId(ids, used) == IF ids \ used = {} THEN 1 + Cardinality(ids) ELSE Min(ids \ used)

ParticipantsOf(parts, conv_uuid) == {r \in parts : r.conversation_id = conv_uuid}

ParticipantRow(conv_uuid, user, role) ==
    [conversation_id |-> conv_uuid, user_id |-> user, role |-> role]

\* is_conversation_member(conv_uuid): EXISTS a participants row for
\* (conv_uuid, auth.uid()).  SECURITY DEFINER: it reads the table itself.
is_conversation_member_anyone(parts, uid, conv_uuid) ==
    \E r \in parts : r.conversation_id = conv_uuid

is_conversation_member(parts, uid, conv_uuid) ==
    \E r \in parts : r.conversation_id = conv_uuid /\ r.user_id = uid

\* ---------------------------------------------------------------- policies
\* "Users can view conversations they participate in", in its first form
\* (over the live hierarchy, as the policy was meant) ...
ConversationSelectPolicy_Hierarchy(uid, row, profs, parts) ==
    \/ row.client_id = uid
    \/ row.mentor_id = uid
    \/ /\ row.mentor_id \in DOMAIN profs
       /\ profs[row.mentor_id].director_id = uid

\* ... and as the last migration leaves it: over conversation_participants.
ConversationSelectPolicy(uid, row, profs, parts) ==
    \E r \in parts : r.conversation_id = row.id /\ r.user_id = uid

\* "Clients can create conversations with their mentor" WITH CHECK.  Inside the
\* subquery over profiles, id and mentor_id are columns of profiles and
\* client_id is the column of the new conversations row.
ConversationInsertPolicy_OuterMentor(uid, row, profs) ==
    \/ row.client_id = uid
    \/ row.mentor_id = uid
    \/ \E p \in DOMAIN profs : p = row.client_id /\ row.mentor_id = uid

ConversationInsertPolicy(uid, row, profs) ==
    \/ row.client_id = uid
    \/ row.mentor_id = uid
    \/ \E p \in DOMAIN profs : p = row.client_id /\ profs[p].mentor_id = uid

\* conversations has row-level security enabled and policies FOR SELECT and
\* FOR INSERT only: an UPDATE or a DELETE finds no row it may touch.
ConversationUpdatePolicy(uid, row, parts) == FALSE

ConversationDeletePolicy_Participants(uid, row, parts) ==
    is_conversation_member(parts, uid, row.id)

ConversationDeletePolicy(uid, row, parts) == FALSE

\* conversation_participants has row-level security enabled and one policy,
\* FOR SELECT: no INSERT, UPDATE or DELETE by a client of the API is admitted;
\* the rows are written by the trigger (SECURITY DEFINER) and by scripts.
ParticipantInsertPolicy_Self(uid, row) == row.user_id = uid

ParticipantInsertPolicy(uid, row) == FALSE

ParticipantUpdatePolicy(uid, row) == FALSE

ParticipantDeletePolicy(uid, row) == FALSE

\* "Users can view participants of their conversations".
ParticipantSelectPolicy(uid, row, parts) ==
    is_conversation_member(parts, uid, row.conversation_id)

\* profiles has row-level security enabled and policies FOR SELECT and FOR
\* UPDATE only: an INSERT by a client of the API is admitted by no policy.
ProfileInsertPolicy(uid, row) == FALSE

\* "Users can update their own profile": USING and WITH CHECK (id = auth.uid()),
\* with no restriction on the columns.
ProfileUpdatePolicy(uid, id) == id = uid

\* "Conversation members can read messages".
MessageSelectPolicy(uid, row, parts) ==
    is_conversation_member(parts, uid, row.conversation_id)

\* "Conversation members can add messages" WITH CHECK.
MessageInsertPolicy_AnySender(uid, row, parts) ==
    is_conversation_member(parts, uid, row.conversation_id)

MessageInsertPolicy(uid, row, parts) ==
    /\ is_conversation_member(parts, uid, row.conversation_id)
    /\ row.sender_id = uid

\* "Senders can delete their own messages" USING.
MessageDeletePolicy_Members(uid, row, parts) ==
    is_conversation_member(parts, uid, row.conversation_id)

MessageDeletePolicy(uid, row, parts) == row.sender_id = uid

\* "Users can manage their own bookmarks" FOR ALL: USING and WITH CHECK.
BookmarkPolicy_Authenticated(uid, row) == uid \in Users

BookmarkPolicy(uid, row) == row.user_id = uid

\* "Users can manage their own favorites" FOR ALL: USING and WITH CHECK.
FavoritePolicy(uid, row) == row.user_id = uid

\* "Users can manage their own folders" FOR ALL: USING and WITH CHECK.
FolderPolicy(uid, row) == row.owner_id = uid

\* "Users can manage items in their folders" FOR ALL.  USING: the folder is
\* one of the requester's.
FolderItemUsingPolicy(uid, row, flds) ==
    row.folder_id \in {f.id : f \in {g \in flds : g.owner_id = uid}}

\* WITH CHECK: the folder is one of the requester's and the message is of a
\* conversation the requester is a member of.
FolderItemCheckPolicy_OwnerOnly(uid, row, flds, msgs, parts) ==
    row.folder_id \in {f.id : f \in {g \in flds : g.owner_id = uid}}

FolderItemCheckPolicy(uid, row, flds, msgs, parts) ==
    /\ row.folder_id \in {f.id : f \in {g \in flds : g.owner_id = uid}}
    /\ \E m \in msgs : /\ m.id = row.message_id
                        /\ is_conversation_member(parts, uid, m.conversation_id)

\* "Only conversation members can read audio files" on storage.objects; folder
\* is (storage.foldername(name))[1]::uuid of the row.
StorageSelectPolicy(uid, row, parts) ==
    /\ row.bucket_id = "voices"
    /\ is_conversation_member(parts, uid, row.folder)

\* "Only conversation members can upload audio files" WITH CHECK.
StorageInsertPolicy_AnyOwner(uid, row, parts) ==
    /\ row.bucket_id = "voices"
    /\ is_conversation_member(parts, uid, row.folder)

StorageInsertPolicy(uid, row, parts) ==
    /\ row.bucket_id = "voices"
    /\ is_conversation_member(parts, uid, row.folder)
    /\ uid = row.owner

\* ----------------------------------------------- participant materialization
\* INSERT INTO conversation_participants: the primary key (conversation_id,
\* user_id) raises unique_violation, which aborts the statement.
InsertParticipant(t, row) ==
    IF ~t.ok \/ \E r \in t.rows : r.conversation_id = row.conversation_id
                                  /\ r.user_id = row.user_id
    THEN [ok |-> FALSE, rows |-> t.rows]
    ELSE [ok |-> TRUE, rows |-> t.rows \cup {row}]

add_conversation_participants_NoDirector(NEWROW, profs, parts) ==
    LET s1 == InsertParticipant([ok |-> TRUE, rows |-> parts],
                                ParticipantRow(NEWROW.id, NEWROW.client_id, "client"))
    IN  InsertParticipant(s1, ParticipantRow(NEWROW.id, NEWROW.mentor_id, "mentor"))

add_conversation_participants_ClientDirector(NEWROW, profs, parts) ==
    LET director_id == IF NEWROW.client_id \in DOMAIN profs
                       THEN profs[NEWROW.client_id].director_id ELSE NULL
        s1 == InsertParticipant([ok |-> TRUE, rows |-> parts],
                                ParticipantRow(NEWROW.id, NEWROW.client_id, "client"))
        s2 == InsertParticipant(s1, ParticipantRow(NEWROW.id, NEWROW.mentor_id, "mentor"))
    IN  IF director_id # NULL
        THEN InsertParticipant(s2, ParticipantRow(NEWROW.id, director_id, "training_director"))
        ELSE s2

\* The AFTER INSERT trigger function.
add_conversation_participants(NEWROW, profs, parts) ==
    LET director_id == IF NEWROW.mentor_id \in DOMAIN profs
                       THEN profs[NEWROW.mentor_id].director_id ELSE NULL
        s1 == InsertParticipant([ok |-> TRUE, rows |-> parts],
                                ParticipantRow(NEWROW.id, NEWROW.client_id, "client"))
        s2 == InsertParticipant(s1, ParticipantRow(NEWROW.id, NEWROW.mentor_id, "mentor"))
    IN  IF director_id # NULL
        THEN InsertParticipant(s2, ParticipantRow(NEWROW.id, director_id, "training_director"))
        ELSE s2

\* The INSERT INTO conversations statement once the policy has passed: the
\* foreign keys of the row, then the trigger, all in the statement's
\* transaction.
InsertConversation_NoRollback(NEWROW, profs, convs, parts) ==
    LET t == add_conversation_participants(NEWROW, profs, parts)
    IN  IF NEWROW.client_id \in DOMAIN profs /\ NEWROW.mentor_id \in DOMAIN profs
        THEN [ok |-> t.ok, conversations |-> convs \cup {NEWROW},
              conversation_participants |-> t.rows]
        ELSE [ok |-> FALSE, conversations |-> convs,
              conversation_participants |-> parts]

InsertConversation(NEWROW, profs, convs, parts) ==
    LET t == add_conversation_participants(NEWROW, profs, parts)
    IN  IF NEWROW.client_id \in DOMAIN profs /\ NEWROW.mentor_id \in DOMAIN profs /\ t.ok
        THEN [ok |-> TRUE, conversations |-> convs \cup {NEWROW},
              conversation_participants |-> t.rows]
        ELSE [ok |-> FALSE, conversations |-> convs,
              conversation_participants |-> parts]

\* The participant backfill script, three statements: the director named
\* 'Greg Bottaro' of each conversation's mentor (ON CONFLICT DO NOTHING), then
\* the client and the mentor of every conversation that lacks its row.
BackfillParticipants_EveryConversation(convs, profs, parts) ==
    parts \cup {ParticipantRow(c.id, p, "training_director") :
                  c \in convs, p \in {q \in DOMAIN profs : profs[q].full_name = GregName}}

BackfillParticipants(convs, profs, parts) ==
    LET HasRow(t, cid, u) == \E r \in t : r.conversation_id = cid /\ r.user_id = u
        greg == {<<c, p>> \in convs \X DOMAIN profs :
                    /\ c.mentor_id \in DOMAIN profs
                    /\ profs[p].full_name = GregName
                    /\ profs[c.mentor_id].director_id = p}
        s1 == parts \cup {ParticipantRow(x[1].id, x[2], "training_director") :
                            x \in {y \in greg : ~HasRow(parts, y[1].id, y[2])}}
        s2 == s1 \cup {ParticipantRow(c.id, c.client_id, "client") :
                         c \in {d \in convs : ~HasRow(s1, d.id, d.client_id)}}
    IN  s2 \cup {ParticipantRow(c.id, c.mentor_id, "mentor") :
                   c \in {d \in convs : ~HasRow(s2, d.id, d.mentor_id)}}

\* What a SELECT by uid returns from each table.
ConversationsVisibleTo(uid, convs, profs, parts) ==
    {c \in convs : ConversationSelectPolicy(uid, c, profs, parts)}

SelectConversations(uid) ==
    ConversationsVisibleTo(uid, conversations, profiles, conversation_participants)

SelectMessages(uid) ==
    {m \in audio_messages : MessageSelectPolicy(uid, m, conversation_participants)}

SelectBookmarks(uid) == {b \in bookmarks : BookmarkPolicy(uid, b)}

SelectFavorites(uid) == {f \in favorites : FavoritePolicy(uid, f)}

\* -------------------------------------------------------------------- Init
Profile(role, mentor, director, name) ==
    [role |-> role, mentor_id |-> mentor, director_id |-> director, full_name |-> name]

\* The interval of the recording timer, in milliseconds.
SecondMs == 1000

\* The delay of the recording timeout, in milliseconds.
RecordingLimitMs == 15 * 60 * 1000

\* The state, the refs and the pending continuations of a recorder component
\* (AudioRecorder, MessageInput), here before one is mounted:
\*   isRecording, recordingTime, audioBlob, isSending   useState
\*   mediaRecorder        state of mediaRecorderRef.current, "none" without one
\*   timerRef             the interval of timerRef.current is scheduled
\*   recordingTimeoutRef  the timeout of recordingTimeoutRef.current is scheduled
\*   starting             startRecording awaits getUserMedia
\*   stopEvent            the stop event of the MediaRecorder is queued
\*   elapsed, ticks       milliseconds since mediaRecorder.start(), and the
\*                        number of steps of the clock they passed in
\*   send                 the send that awaits an answer
\*   onMessageSent        calls of the onMessageSent prop
\* A blob is the number of milliseconds it holds.
NoRecorder ==
    [component |-> "none", user |-> NULL, conversationId |-> 0,
     isRecording |-> FALSE, recordingTime |-> 0, audioBlob |-> {},
     isSending |-> FALSE, mediaRecorder |-> "none", timerRef |-> FALSE,
     recordingTimeoutRef |-> FALSE, starting |-> FALSE, stopEvent |-> {},
     elapsed |-> 0, ticks |-> 0, send |-> {}, onMessageSent |-> 0]

\* create<AuthState>: session, user and profile null (the empty set of ids),
\* isLoading false.  fetching holds the users whose fetchProfile awaits its
\* answer, signingOut tells that signOut awaits supabase.auth.signOut(), and
\* sessions counts the calls of setSession.
NewAuthStore ==
    [session |-> {}, user |-> {}, profile |-> {}, isLoading |-> FALSE,
     fetching |-> {}, signingOut |-> FALSE, sessions |-> 0]

\* The seeded hierarchy: client A of mentor B, whose director is D or not yet
\* assigned; G is the training director the seed scripts create.
Init ==
    /\ \E d \in {NULL, "D"} :
         profiles = [u \in Users |->
            CASE u = "A" -> Profile("client", "B", NULL, "other")
              [] u = "B" -> Profile("mentor", NULL, d, "other")
              [] u = "D" -> Profile("training_director", NULL, NULL, "other")
              [] u = "G" -> Profile("training_director", NULL, NULL, GregName)]
    /\ conversations = {}
    /\ conversation_participants = {}
    /\ audio_messages = {}
    /\ bookmarks = {}
    /\ favorites = {}
    /\ profileUpdates = 0
    /\ auth_users = Users
    /\ folders = {}
    /\ folder_items = {}
    /\ storage_objects = {}
    /\ sends = {}
    /\ flows = <<>>
    /\ views = <<>>
    /\ authStore = NewAuthStore
    /\ recorder = NoRecorder

\* ---------------------------------------------------------------- requests
\* The row of INSERT INTO conversations (client_id, mentor_id): id takes its
\* default, gen_random_uuid().
NewConversationRow(client, mentor) ==
    [id |-> FreshId(ConvIds, {c.id : c \in conversations}),
     client_id |-> client, mentor_id |-> mentor]

\* INSERT INTO conversations (client_id, mentor_id) by requester uid: the
\* WITH CHECK policy, then the statement.  The table has no constraint over
\* (client_id, mentor_id); the first form is the statement under one.
InsertConversationRequest_UniquePair(uid, client, mentor) ==
    LET NEWROW == NewConversationRow(client, mentor)
        res == InsertConversation(NEWROW, profiles, conversations,
                                  conversation_participants)
        taken == \E c \in conversations : c.client_id = client /\ c.mentor_id = mentor
    IN  IF ~ConversationInsertPolicy(uid, NEWROW, profiles)
        THEN [result |-> "denied", id |-> NEWROW.id, conversations |-> conversations,
              conversation_participants |-> conversation_participants]
        ELSE IF taken \/ ~res.ok
        THEN [result |-> "error", id |-> NEWROW.id, conversations |-> conversations,
              conversation_participants |-> conversation_participants]
        ELSE [result |-> "ok", id |-> NEWROW.id,
              conversations |-> res.conversations,
              conversation_participants |-> res.conversation_participants]

InsertConversationRequest(uid, client, mentor) ==
    LET NEWROW == NewConversationRow(client, mentor)
        res == InsertConversation(NEWROW, profiles, conversations,
                                  conversation_participants)
    IN  IF ~ConversationInsertPolicy(uid, NEWROW, profiles)
        THEN [result |-> "denied", id |-> NEWROW.id, conversations |-> conversations,
              conversation_participants |-> conversation_participants]
        ELSE [result |-> IF res.ok THEN "ok" ELSE "error", id |-> NEWROW.id,
              conversations |-> res.conversations,
              conversation_participants |-> res.conversation_participants]

\* UPDATE conversations SET client_id = client, mentor_id = mentor WHERE
\* id = id, by requester uid: the rows the SELECT policy shows and the UPDATE
\* policies admit, under the foreign keys of the two columns.
UpdateConversationRequest(uid, id, client, mentor) ==
    LET old == {c \in SelectConversations(uid) :
                   c.id = id /\ ConversationUpdatePolicy(uid, c, conversation_participants)}
        new == {[c EXCEPT !.client_id = client, !.mentor_id = mentor] : c \in old}
    IN  IF old = {}
        THEN [result |-> "none", conversations |-> conversations]
        ELSE IF client \notin DOMAIN profiles \/ mentor \notin DOMAIN profiles
        THEN [result |-> "error", conversations |-> conversations]
        ELSE [result |-> "ok", conversations |-> (conversations \ old) \cup new]

\* DELETE FROM conversations WHERE id = id, by requester uid; participants and
\* messages of a deleted conversation go with it, and with the messages their
\* bookmarks, favorites and folder items (ON DELETE CASCADE).
DeleteConversationRequest(uid, id) ==
    LET gone == {c \in SelectConversations(uid) :
                    c.id = id /\ ConversationDeletePolicy(uid, c, conversation_participants)}
        ids == {c.id : c \in gone}
        msgs == {m.id : m \in {x \in audio_messages : x.conversation_id \in ids}}
    IN  [deleted |-> gone,
         conversations |-> conversations \ gone,
         conversation_participants |->
            {r \in conversation_participants : r.conversation_id \notin ids},
         audio_messages |-> {m \in audio_messages : m.conversation_id \notin ids},
         bookmarks |-> {b \in bookmarks : b.message_id \notin msgs},
         favorites |-> {f \in favorites : f.message_id \notin msgs},
         folder_items |-> {i \in folder_items : i.message_id \notin msgs}]

\* UPDATE profiles SET field = value WHERE id = id, by requester uid.  Rows the
\* USING clause hides are not updated (no error); role is under its CHECK
\* constraint, mentor_id and director_id under their foreign keys.
UpdateProfileRequest(uid, id, field, value) ==
    LET valid == CASE field = "role" -> value \in Roles
                   [] field = "full_name" -> TRUE
                   [] OTHER -> value = NULL \/ value \in DOMAIN profiles
    IN  IF id \notin DOMAIN profiles \/ ~ProfileUpdatePolicy(uid, id)
        THEN [result |-> "none", profiles |-> profiles]
        ELSE IF ~valid
        THEN [result |-> "error", profiles |-> profiles]
        ELSE [result |-> "ok", profiles |-> [profiles EXCEPT ![id][field] = value]]

\* INSERT INTO audio_messages (conversation_id, sender_id, ...) by requester uid.
InsertMessageRequest(uid, conv, sender) ==
    LET row == [id |-> FreshId(MsgIds, {m.id : m \in audio_messages}),
                conversation_id |-> conv, sender_id |-> sender]
    IN  IF ~MessageInsertPolicy(uid, row, conversation_participants)
        THEN [result |-> "denied", audio_messages |-> audio_messages]
        ELSE IF ~(conv \in {c.id : c \in conversations} /\ sender \in DOMAIN profiles)
        THEN [result |-> "error", audio_messages |-> audio_messages]
        ELSE [result |-> "ok", audio_messages |-> audio_messages \cup {row}]

\* DELETE FROM audio_messages WHERE id = id, by requester uid: the rows the
\* SELECT policy shows and the DELETE policy admits; bookmarks, favorites and
\* folder items of a deleted message go with it (ON DELETE CASCADE).
DeleteMessageRequest(uid, id) ==
    LET gone == {m \in audio_messages :
                    /\ m.id = id
                    /\ MessageSelectPolicy(uid, m, conversation_participants)
                    /\ MessageDeletePolicy(uid, m, conversation_participants)}
        ids == {m.id : m \in gone}
    IN  [deleted |-> gone,
         audio_messages |-> audio_messages \ gone,
         bookmarks |-> {b \in bookmarks : b.message_id \notin ids},
         favorites |-> {f \in favorites : f.message_id \notin ids},
         folder_items |-> {i \in folder_items : i.message_id \notin ids}]

\* INSERT INTO bookmarks (message_id, user_id, timestamp_sec, ...) by uid.
InsertBookmarkRequest(uid, message, user, ts) ==
    LET row == [id |-> FreshId(BookmarkIds, {b.id : b \in bookmarks}),
                message_id |-> message, user_id |-> user, timestamp_sec |-> ts]
    IN  IF ~BookmarkPolicy(uid, row)
        THEN [result |-> "denied", bookmarks |-> bookmarks]
        ELSE IF ~(message \in {m.id : m \in audio_messages} /\ user \in DOMAIN profiles)
        THEN [result |-> "error", bookmarks |-> bookmarks]
        ELSE [result |-> "ok", bookmarks |-> bookmarks \cup {row}]

\* UPDATE bookmarks SET user_id = user, timestamp_sec = ts WHERE id = id, by
\* uid: USING selects the rows, WITH CHECK must admit each new row.
UpdateBookmarkRequest(uid, id, user, ts) ==
    LET old == {b \in bookmarks : b.id = id /\ BookmarkPolicy(uid, b)}
        new == {[b EXCEPT !.user_id = user, !.timestamp_sec = ts] : b \in old}
    IN  IF old = {}
        THEN [result |-> "none", bookmarks |-> bookmarks]
        ELSE IF \E b \in new : ~BookmarkPolicy(uid, b)
        THEN [result |-> "denied", bookmarks |-> bookmarks]
        ELSE IF user \notin DOMAIN profiles
        THEN [result |-> "error", bookmarks |-> bookmarks]
        ELSE [result |-> "ok", bookmarks |-> (bookmarks \ old) \cup new]

\* DELETE FROM bookmarks WHERE id = id, by uid.
DeleteBookmarkRequest(uid, id) ==
    LET gone == {b \in bookmarks : b.id = id /\ BookmarkPolicy(uid, b)}
    IN  [deleted |-> gone, bookmarks |-> bookmarks \ gone]

\* INSERT INTO favorites (user_id, message_id) by uid; the primary key is
\* (user_id, message_id).
InsertFavoriteRequest(uid, user, message) ==
    LET row == [user_id |-> user, message_id |-> message]
    IN  IF ~FavoritePolicy(uid, row)
        THEN [result |-> "denied", favorites |-> favorites]
        ELSE IF \/ message \notin {m.id : m \in audio_messages}
                \/ user \notin DOMAIN profiles
                \/ row \in favorites
        THEN [result |-> "error", favorites |-> favorites]
        ELSE [result |-> "ok", favorites |-> favorites \cup {row}]

\* UPDATE favorites SET user_id = newUser WHERE user_id = user AND
\* message_id = message, by uid.
UpdateFavoriteRequest(uid, user, message, newUser) ==
    LET old == {f \in favorites :
                   f.user_id = user /\ f.message_id = message /\ FavoritePolicy(uid, f)}
        new == {[f EXCEPT !.user_id = newUser] : f \in old}
    IN  IF old = {}
        THEN [result |-> "none", favorites |-> favorites]
        ELSE IF \E f \in new : ~FavoritePolicy(uid, f)
        THEN [result |-> "denied", favorites |-> favorites]
        ELSE IF newUser \notin DOMAIN profiles \/ (new \ old) \cap favorites # {}
        THEN [result |-> "error", favorites |-> favorites]
        ELSE [result |-> "ok", favorites |-> (favorites \ old) \cup new]

\* DELETE FROM favorites WHERE user_id = user AND message_id = message, by uid.
DeleteFavoriteRequest(uid, user, message) ==
    LET gone == {f \in favorites :
                    f.user_id = user /\ f.message_id = message /\ FavoritePolicy(uid, f)}
    IN  [deleted |-> gone, favorites |-> favorites \ gone]

\* The contacts page of user: the profiles other than the user's own that the
\* query of the user's role selects (every profile is readable).
Contacts(user) ==
    LET profile == profiles[user]
        others == DOMAIN profiles \ {user}
        mentorIds == {p \in DOMAIN profiles : profiles[p].director_id = user}
    IN  CASE profile.role = "client" ->
               {p \in others : p = profile.mentor_id}
          [] profile.role = "mentor" ->
               {p \in others : p = profile.director_id \/ profiles[p].mentor_id = user}
          [] profile.role = "training_director" ->
               IF mentorIds # {}
               THEN {p \in others : \/ profiles[p].director_id = user
                                     \/ p \in mentorIds
                                     \/ profiles[p].mentor_id \in mentorIds}
               ELSE {p \in others : profiles[p].director_id = user}

\* The conversation page opened by user on contact: the conversation between
\* the two that user can see, in either orientation, and when there is none
\* an insert with client_id = user and mentor_id = contact.
OpenConversationRequest(user, contact) ==
    LET existingConv ==
            {c \in SelectConversations(user) :
                \/ (c.client_id = user /\ c.mentor_id = contact)
                \/ (c.client_id = contact /\ c.mentor_id = user)}
        r == InsertConversationRequest(user, user, contact)
    IN  IF existingConv # {}
        THEN [result |-> "found", conversations |-> conversations,
              conversation_participants |-> conversation_participants]
        ELSE [result |-> r.result, conversations |-> r.conversations,
              conversation_participants |-> r.conversation_participants]

\* INSERT INTO profiles (id, full_name, role, mentor_id, director_id) by uid:
\* the policy, then the primary key, the foreign key to auth.users and the
\* CHECK of role.
InsertProfileRequest(uid, id, name, role) ==
    LET row == Profile(role, NULL, NULL, name)
    IN  IF ~ProfileInsertPolicy(uid, [id |-> id] @@ row)
        THEN [result |-> "denied", profiles |-> profiles]
        ELSE IF id \in DOMAIN profiles \/ id \notin auth_users \/ role \notin Roles
        THEN [result |-> "error", profiles |-> profiles]
        ELSE [result |-> "ok", profiles |-> (id :> row) @@ profiles]

\* signUp(email, password, fullName, role): the identity provider creates the
\* identity id (an error when the email is registered already); then, signed
\* in as the new identity, the profile insert.  A failed profile insert is
\* reported as 'Failed to create profile' and the identity stays.
SignUpRequest(id, name, role) ==
    LET r == InsertProfileRequest(id, id, name, role)
    IN  IF id \in auth_users
        THEN [result |-> "error", auth_users |-> auth_users, profiles |-> profiles]
        ELSE [result |-> IF r.result = "ok" THEN "ok" ELSE "Failed to create profile",
              auth_users |-> auth_users \cup {id},
              profiles |-> r.profiles]

\* The rows that reference profile id through a foreign key without ON DELETE
\* CASCADE: another profile's mentor_id or director_id, a conversation's
\* client_id or mentor_id, a message's sender_id, a bookmark's user_id, a
\* folder's owner_id.
ProfileIsReferenced(id) ==
    \/ \E p \in DOMAIN profiles \ {id} :
          profiles[p].mentor_id = id \/ profiles[p].director_id = id
    \/ \E c \in conversations : c.client_id = id \/ c.mentor_id = id
    \/ \E m \in audio_messages : m.sender_id = id
    \/ \E b \in bookmarks : b.user_id = id
    \/ \E f \in folders : f.owner_id = id

\* DELETE FROM auth.users WHERE id = id, by the database owner: the profile
\* goes with the identity (ON DELETE CASCADE), and with the profile its
\* participants rows and favorites; a reference without ON DELETE CASCADE
\* raises foreign_key_violation and the statement deletes nothing.
DeleteIdentityRequest(id) ==
    LET same == [result |-> "none", auth_users |-> auth_users, profiles |-> profiles,
                 conversations |-> conversations,
                 conversation_participants |-> conversation_participants,
                 favorites |-> favorites]
    IN  IF id \notin auth_users
        THEN same
        ELSE IF id \in DOMAIN profiles /\ ProfileIsReferenced(id)
        THEN [same EXCEPT !.result = "error"]
        ELSE [result |-> "ok",
              auth_users |-> auth_users \ {id},
              profiles |-> [p \in DOMAIN profiles \ {id} |-> profiles[p]],
              conversations |-> conversations,
              conversation_participants |->
                 {r \in conversation_participants : r.user_id # id},
              favorites |-> {f \in favorites : f.user_id # id}]

\* INSERT INTO folders (owner_id, name) by uid.
InsertFolderRequest(uid, owner) ==
    LET row == [id |-> FreshId(FolderIds, {f.id : f \in folders}), owner_id |-> owner]
    IN  IF ~FolderPolicy(uid, row)
        THEN [result |-> "denied", folders |-> folders]
        ELSE IF owner \notin DOMAIN profiles
        THEN [result |-> "error", folders |-> folders]
        ELSE [result |-> "ok", folders |-> folders \cup {row}]

\* DELETE FROM folders WHERE id = id, by uid; its items go with it (ON DELETE
\* CASCADE).
DeleteFolderRequest(uid, id) ==
    LET gone == {f \in folders : f.id = id /\ FolderPolicy(uid, f)}
        ids == {f.id : f \in gone}
    IN  [deleted |-> gone, folders |-> folders \ gone,
         folder_items |-> {i \in folder_items : i.folder_id \notin ids}]

\* INSERT INTO folder_items (folder_id, message_id) by uid: the WITH CHECK
\* policy, then the primary key (folder_id, message_id) and the foreign keys.
InsertFolderItemRequest(uid, folder, message) ==
    LET row == [folder_id |-> folder, message_id |-> message]
    IN  IF ~FolderItemCheckPolicy(uid, row, folders, audio_messages,
                                  conversation_participants)
        THEN [result |-> "denied", folder_items |-> folder_items]
        ELSE IF \/ row \in folder_items
                \/ folder \notin {f.id : f \in folders}
                \/ message \notin {m.id : m \in audio_messages}
        THEN [result |-> "error", folder_items |-> folder_items]
        ELSE [result |-> "ok", folder_items |-> folder_items \cup {row}]

\* DELETE FROM folder_items WHERE folder_id = folder AND message_id = message,
\* by uid.
DeleteFolderItemRequest(uid, folder, message) ==
    LET gone == {i \in folder_items :
                    /\ i.folder_id = folder /\ i.message_id = message
                    /\ FolderItemUsingPolicy(uid, i, folders)}
    IN  [deleted |-> gone, folder_items |-> folder_items \ gone]

\* What a SELECT by uid returns from folder_items.
SelectFolderItems(uid) ==
    {i \in folder_items : FolderItemUsingPolicy(uid, i, folders)}

\* INSERT INTO storage.objects (bucket_id, name, owner) for the path
\* folder/name, by uid; a path is unique in its bucket.
UploadObjectRequest(uid, bucket, folder, name, owner) ==
    LET row == [bucket_id |-> bucket, folder |-> folder, name |-> name, owner |-> owner]
    IN  IF ~StorageInsertPolicy(uid, row, conversation_participants)
        THEN [result |-> "denied", storage_objects |-> storage_objects]
        ELSE IF \E o \in storage_objects :
                   o.bucket_id = bucket /\ o.folder = folder /\ o.name = name
        THEN [result |-> "error", storage_objects |-> storage_objects]
        ELSE [result |-> "ok", storage_objects |-> storage_objects \cup {row}]

\* What a SELECT by uid returns from storage.objects.
SelectObjects(uid) ==
    {o \in storage_objects : StorageSelectPolicy(uid, o, conversation_participants)}

\* ----------------------------------------------------------------- actions
CreateConversation(uid, client, mentor) ==
    /\ Cardinality(conversations) < MaxConversations
    /\ LET r == InsertConversationRequest(uid, client, mentor)
       IN  /\ conversations' = r.conversations
           /\ conversation_participants' = r.conversation_participants
    /\ UNCHANGED clientVars
    /\ UNCHANGED <<profiles, audio_messages, bookmarks, favorites, profileUpdates, lifecycleVars>>

UpdateProfile(uid, id, field, value) ==
    /\ profileUpdates < MaxProfileUpdates
    /\ LET r == UpdateProfileRequest(uid, id, field, value)
       IN  /\ profiles' = r.profiles
           /\ profileUpdates' = IF r.profiles # profiles
                                THEN profileUpdates + 1 ELSE profileUpdates
    /\ UNCHANGED clientVars
    /\ UNCHANGED <<conversations, conversation_participants, audio_messages,
                   bookmarks, favorites, lifecycleVars>>

\* The seed script's UPDATE profiles SET director_id = td WHERE id = mentor,
\* for a user it created as a mentor and one it created as a training
\* director, run by the database owner (row-level security does not apply).
AdminSetDirector(mentor, director) ==
    /\ profileUpdates < MaxProfileUpdates
    /\ mentor \in DOMAIN profiles
    /\ director \in DOMAIN profiles
    /\ profiles[mentor].role = "mentor"
    /\ profiles[director].role = "training_director"
    /\ profiles[mentor].director_id # director
    /\ profiles' = [profiles EXCEPT ![mentor].director_id = director]
    /\ profileUpdates' = profileUpdates + 1
    /\ UNCHANGED clientVars
    /\ UNCHANGED <<conversations, conversation_participants, audio_messages,
                   bookmarks, favorites, lifecycleVars>>

\* The participant backfill script, run by the database owner.
Backfill ==
    /\ conversation_participants' =
          BackfillParticipants(conversations, profiles, conversation_participants)
    /\ UNCHANGED clientVars
    /\ UNCHANGED <<profiles, conversations, audio_messages, bookmarks, favorites,
                   profileUpdates, lifecycleVars>>

InsertMessage(uid, conv, sender) ==
    /\ Cardinality(audio_messages) < MaxMessages
    /\ audio_messages' = InsertMessageRequest(uid, conv, sender).audio_messages
    /\ UNCHANGED clientVars
    /\ UNCHANGED <<profiles, conversations, conversation_participants, bookmarks,
                   favorites, profileUpdates, lifecycleVars>>

DeleteMessage(uid, id) ==
    /\ LET r == DeleteMessageRequest(uid, id)
       IN  /\ audio_messages' = r.audio_messages
           /\ bookmarks' = r.bookmarks
           /\ favorites' = r.favorites
           /\ folder_items' = r.folder_items
    /\ UNCHANGED clientVars
    /\ UNCHANGED <<profiles, conversations, conversation_participants, profileUpdates,
                   auth_users, folders, storage_objects>>

InsertBookmark(uid, message, user, ts) ==
    /\ Cardinality(bookmarks) < MaxBookmarks
    /\ bookmarks' = InsertBookmarkRequest(uid, message, user, ts).bookmarks
    /\ UNCHANGED clientVars
    /\ UNCHANGED <<profiles, conversations, conversation_participants,
                   audio_messages, favorites, profileUpdates, lifecycleVars>>

UpdateBookmark(uid, id, user, ts) ==
    /\ bookmarks' = UpdateBookmarkRequest(uid, id, user, ts).bookmarks
    /\ UNCHANGED clientVars
    /\ UNCHANGED <<profiles, conversations, conversation_participants,
                   audio_messages, favorites, profileUpdates, lifecycleVars>>

DeleteBookmark(uid, id) ==
    /\ bookmarks' = DeleteBookmarkRequest(uid, id).bookmarks
    /\ UNCHANGED clientVars
    /\ UNCHANGED <<profiles, conversations, conversation_participants,
                   audio_messages, favorites, profileUpdates, lifecycleVars>>

InsertFavorite(uid, user, message) ==
    /\ Cardinality(favorites) < MaxFavorites
    /\ favorites' = InsertFavoriteRequest(uid, user, message).favorites
    /\ UNCHANGED clientVars
    /\ UNCHANGED <<profiles, conversations, conversation_participants,
                   audio_messages, bookmarks, profileUpdates, lifecycleVars>>

UpdateFavorite(uid, user, message, newUser) ==
    /\ favorites' = UpdateFavoriteRequest(uid, user, message, newUser).favorites
    /\ UNCHANGED clientVars
    /\ UNCHANGED <<profiles, conversations, conversation_participants,
                   audio_messages, bookmarks, profileUpdates, lifecycleVars>>

DeleteFavorite(uid, user, message) ==
    /\ favorites' = DeleteFavoriteRequest(uid, user, message).favorites
    /\ UNCHANGED clientVars
    /\ UNCHANGED <<profiles, conversations, conversation_participants,
                   audio_messages, bookmarks, profileUpdates, lifecycleVars>>

OpenConversation(user, contact) ==
    /\ Cardinality(conversations) < MaxConversations
    /\ LET r == OpenConversationRequest(user, contact)
       IN  /\ conversations' = r.conversations
           /\ conversation_participants' = r.conversation_participants
    /\ UNCHANGED clientVars
    /\ UNCHANGED <<profiles, audio_messages, bookmarks, favorites, profileUpdates,
                   lifecycleVars>>

InsertFolder(uid, owner) ==
    /\ Cardinality(folders) < MaxFolders
    /\ folders' = InsertFolderRequest(uid, owner).folders
    /\ UNCHANGED clientVars
    /\ UNCHANGED <<profiles, conversations, conversation_participants,
                   audio_messages, bookmarks, favorites, profileUpdates,
                   auth_users, folder_items, storage_objects>>

DeleteFolder(uid, id) ==
    /\ LET r == DeleteFolderRequest(uid, id)
       IN  /\ folders' = r.folders
           /\ folder_items' = r.folder_items
    /\ UNCHANGED clientVars
    /\ UNCHANGED <<profiles, conversations, conversation_participants,
                   audio_messages, bookmarks, favorites, profileUpdates,
                   auth_users, storage_objects>>

InsertFolderItem(uid, folder, message) ==
    /\ Cardinality(folder_items) < MaxFolderItems
    /\ folder_items' = InsertFolderItemRequest(uid, folder, message).folder_items
    /\ UNCHANGED clientVars
    /\ UNCHANGED <<profiles, conversations, conversation_participants,
                   audio_messages, bookmarks, favorites, profileUpdates,
                   auth_users, folders, storage_objects>>

DeleteFolderItem(uid, folder, message) ==
    /\ folder_items' = DeleteFolderItemRequest(uid, folder, message).folder_items
    /\ UNCHANGED clientVars
    /\ UNCHANGED <<profiles, conversations, conversation_participants,
                   audio_messages, bookmarks, favorites, profileUpdates,
                   auth_users, folders, storage_objects>>

SignUp(id, name, role) ==
    /\ Cardinality(auth_users \ Users) < MaxSignUps
    /\ LET r == SignUpRequest(id, name, role)
       IN  /\ auth_users' = r.auth_users
           /\ profiles' = r.profiles
    /\ UNCHANGED clientVars
    /\ UNCHANGED <<conversations, conversation_participants, audio_messages,
                   bookmarks, favorites, profileUpdates, folders, folder_items,
                   storage_objects>>

AdminDeleteIdentity(id) ==
    /\ LET r == DeleteIdentityRequest(id)
       IN  /\ auth_users' = r.auth_users
           /\ profiles' = r.profiles
           /\ conversations' = r.conversations
           /\ conversation_participants' = r.conversation_participants
           /\ favorites' = r.favorites
    /\ UNCHANGED clientVars
    /\ UNCHANGED <<audio_messages, bookmarks, profileUpdates, folders, folder_items,
                   storage_objects>>

UpdateConversation(uid, id, client, mentor) ==
    /\ conversations' = UpdateConversationRequest(uid, id, client, mentor).conversations
    /\ UNCHANGED clientVars
    /\ UNCHANGED <<profiles, conversation_participants, audio_messages, bookmarks,
                   favorites, profileUpdates, lifecycleVars>>

DeleteConversation(uid, id) ==
    /\ LET r == DeleteConversationRequest(uid, id)
       IN  /\ conversations' = r.conversations
           /\ conversation_participants' = r.conversation_participants
           /\ audio_messages' = r.audio_messages
           /\ bookmarks' = r.bookmarks
           /\ favorites' = r.favorites
           /\ folder_items' = r.folder_items
    /\ UNCHANGED clientVars
    /\ UNCHANGED <<profiles, profileUpdates, auth_users, folders, storage_objects>>

UploadObject(uid, bucket, folder, name, owner) ==
    /\ Cardinality(storage_objects) < MaxObjects
    /\ storage_objects' = UploadObjectRequest(uid, bucket, folder, name, owner).storage_objects
    /\ UNCHANGED clientVars
    /\ UNCHANGED <<profiles, conversations, conversation_participants,
                   audio_messages, bookmarks, favorites, profileUpdates,
                   auth_users, folders, folder_items>>

\* The columns of profiles a request may name, and the values tried for each.
ProfileFields == {"role", "mentor_id", "director_id", "full_name"}

FieldValues(field) ==
    CASE field = "role" -> Roles
      [] field = "full_name" -> Names
      [] OTHER -> Users \cup {NULL}

ConversationRequests ==
    \E uid \in Users, client \in Users, mentor \in Users :
       CreateConversation(uid, client, mentor)

ProfileRequests ==
    \/ \E uid \in Users, id \in Users, field \in ProfileFields :
         \E value \in FieldValues(field) : UpdateProfile(uid, id, field, value)
    \/ \E mentor \in Users, director \in Users : AdminSetDirector(mentor, director)

MessageRequests ==
    \/ \E uid \in Users, conv \in ConvIds, sender \in Users :
         InsertMessage(uid, conv, sender)
    \/ \E uid \in Users, id \in MsgIds : DeleteMessage(uid, id)

BookmarkRequests ==
    \/ \E uid \in Users, message \in MsgIds, user \in Users, ts \in Timestamps :
         InsertBookmark(uid, message, user, ts)
    \/ \E uid \in Users, id \in BookmarkIds, user \in Users, ts \in Timestamps :
         UpdateBookmark(uid, id, user, ts)
    \/ \E uid \in Users, id \in BookmarkIds : DeleteBookmark(uid, id)

FavoriteRequests ==
    \/ \E uid \in Users, user \in Users, message \in MsgIds :
         InsertFavorite(uid, user, message)
    \/ \E uid \in Users, user \in Users, message \in MsgIds, newUser \in Users :
         UpdateFavorite(uid, user, message, newUser)
    \/ \E uid \in Users, user \in Users, message \in MsgIds :
         DeleteFavorite(uid, user, message)

FolderRequests ==
    \/ \E uid \in Users, owner \in Users : InsertFolder(uid, owner)
    \/ \E uid \in Users, id \in FolderIds : DeleteFolder(uid, id)
    \/ \E uid \in Users, folder \in FolderIds, message \in MsgIds :
         InsertFolderItem(uid, folder, message)
    \/ \E uid \in Users, folder \in FolderIds, message \in MsgIds :
         DeleteFolderItem(uid, folder, message)

IdentityRequests ==
    \/ \E id \in NewUsers, name \in Names, role \in Roles : SignUp(id, name, role)
    \/ \E id \in Users \cup NewUsers : AdminDeleteIdentity(id)

ConversationChangeRequests ==
    \/ \E uid \in Users, id \in ConvIds, client \in Users, mentor \in Users :
         UpdateConversation(uid, id, client, mentor)
    \/ \E uid \in Users, id \in ConvIds : DeleteConversation(uid, id)

\* The conversation folders tried in a path: those of ConvIds and one more.
PathFolders == ConvIds \cup {MaxConversations + 1}

StorageRequests ==
    \E uid \in Users, bucket \in Buckets, folder \in PathFolders,
       name \in ObjectNames, owner \in Users :
       UploadObject(uid, bucket, folder, name, owner)

\* Conversations as the application opens them: a user with a profile clicks
\* one of their contacts.
AppConversations ==
    \E user \in Users, contact \in Users :
       /\ user \in DOMAIN profiles
       /\ contact \in Contacts(user)
       /\ OpenConversation(user, contact)

Next ==
    \/ ConversationRequests
    \/ ProfileRequests
    \/ Backfill
    \/ MessageRequests
    \/ BookmarkRequests
    \/ FavoriteRequests

Spec == Init /\ [][Next]_vars

\* The columns of profiles that the policies, the trigger and the backfill
\* read: mentor_id (insert policy), director_id (trigger, backfill) and
\* full_name (backfill).
HierarchyFields == {"mentor_id", "director_id", "full_name"}

HierarchyRequests ==
    \/ \E uid \in Users, id \in Users, field \in HierarchyFields :
         \E value \in FieldValues(field) : UpdateProfile(uid, id, field, value)
    \/ \E mentor \in Users, director \in Users : AdminSetDirector(mentor, director)

\* Conversations and the hierarchy: creation, updates of the hierarchy, the
\* backfill.
NextMembership ==
    \/ ConversationRequests
    \/ HierarchyRequests
    \/ Backfill

SpecMembership == Init /\ [][NextMembership]_vars

\* Conversations and their messages, with directors reassigned meanwhile.
NextMessages ==
    \/ ConversationRequests
    \/ \E mentor \in Users, director \in Users : AdminSetDirector(mentor, director)
    \/ MessageRequests

SpecMessages == Init /\ [][NextMessages]_vars

\* Conversations and their content under a hierarchy that stays as seeded.
NextContent ==
    \/ ConversationRequests
    \/ MessageRequests
    \/ BookmarkRequests
    \/ FavoriteRequests

SpecContent == Init /\ [][NextContent]_vars

\* Conversations opened from the application, their messages, and folders.
NextFolders ==
    \/ AppConversations
    \/ MessageRequests
    \/ FolderRequests

SpecFolders == Init /\ [][NextFolders]_vars

\* Conversations and their messages, with requests to change or delete the
\* conversations.
NextConversations ==
    \/ NextMessages
    \/ ConversationChangeRequests

SpecConversations == Init /\ [][NextConversations]_vars

\* Identities and profiles: registration, removal, profile updates of every
\* column, and the conversations the application and the API open.
NextLifecycle ==
    \/ IdentityRequests
    \/ ProfileRequests
    \/ AppConversations
    \/ ConversationRequests

SpecLifecycle == Init /\ [][NextLifecycle]_vars

\* Conversations and the objects stored under their folders, with directors
\* reassigned meanwhile.
NextStorage ==
    \/ ConversationRequests
    \/ \E mentor \in Users, director \in Users : AdminSetDirector(mentor, director)
    \/ StorageRequests

SpecStorage == Init /\ [][NextStorage]_vars

\* INSERT INTO conversation_participants (conversation_id, user_id, role) by
\* requester uid: the policy, then the primary key and the foreign keys.
InsertParticipantRequest(uid, conv, user, role) ==
    LET NEWROW == ParticipantRow(conv, user, role)
        same == [result |-> "denied",
                 conversation_participants |-> conversation_participants]
    IN  IF ~ParticipantInsertPolicy(uid, NEWROW)
        THEN same
        ELSE IF \/ \E r \in conversation_participants :
                      r.conversation_id = conv /\ r.user_id = user
                \/ conv \notin {c.id : c \in conversations}
                \/ user \notin DOMAIN profiles
        THEN [same EXCEPT !.result = "error"]
        ELSE [result |-> "ok",
              conversation_participants |-> conversation_participants \cup {NEWROW}]

\* UPDATE conversation_participants SET role = role WHERE conversation_id =
\* conv AND user_id = user, by requester uid: the rows the SELECT policy shows
\* and the UPDATE policies admit.
UpdateParticipantRequest(uid, conv, user, role) ==
    LET old == {r \in conversation_participants :
                   /\ r.conversation_id = conv /\ r.user_id = user
                   /\ ParticipantSelectPolicy(uid, r, conversation_participants)
                   /\ ParticipantUpdatePolicy(uid, r)}
        new == {[r EXCEPT !.role = role] : r \in old}
    IN  [result |-> IF old = {} THEN "none" ELSE "ok",
         conversation_participants |-> (conversation_participants \ old) \cup new]

\* DELETE FROM conversation_participants WHERE conversation_id = conv AND
\* user_id = user, by requester uid.
DeleteParticipantRequest(uid, conv, user) ==
    LET gone == {r \in conversation_participants :
                    /\ r.conversation_id = conv /\ r.user_id = user
                    /\ ParticipantSelectPolicy(uid, r, conversation_participants)
                    /\ ParticipantDeletePolicy(uid, r)}
    IN  [result |-> IF gone = {} THEN "none" ELSE "ok",
         conversation_participants |-> conversation_participants \ gone]

InsertParticipantRow(uid, conv, user, role) ==
    /\ conversation_participants' =
          InsertParticipantRequest(uid, conv, user, role).conversation_participants
    /\ UNCHANGED clientVars
    /\ UNCHANGED <<profiles, conversations, audio_messages, bookmarks, favorites,
                   profileUpdates, lifecycleVars>>

UpdateParticipantRow(uid, conv, user, role) ==
    /\ conversation_participants' =
          UpdateParticipantRequest(uid, conv, user, role).conversation_participants
    /\ UNCHANGED clientVars
    /\ UNCHANGED <<profiles, conversations, audio_messages, bookmarks, favorites,
                   profileUpdates, lifecycleVars>>

DeleteParticipantRow(uid, conv, user) ==
    /\ conversation_participants' =
          DeleteParticipantRequest(uid, conv, user).conversation_participants
    /\ UNCHANGED clientVars
    /\ UNCHANGED <<profiles, conversations, audio_messages, bookmarks, favorites,
                   profileUpdates, lifecycleVars>>

ParticipantRequests ==
    \/ \E uid \in Users, conv \in ConvIds, user \in Users, role \in Roles :
         InsertParticipantRow(uid, conv, user, role)
    \/ \E uid \in Users, conv \in ConvIds, user \in Users, role \in Roles :
         UpdateParticipantRow(uid, conv, user, role)
    \/ \E uid \in Users, conv \in ConvIds, user \in Users :
         DeleteParticipantRow(uid, conv, user)

\* The requests that could change who is a member: conversations created,
\* mentors and directors reassigned (by the owner of the profile or by the
\* administration), and statements on conversation_participants itself.
NextParticipants ==
    \/ ConversationRequests
    \/ \E uid \in Users, id \in Users, mentor \in Users :
         UpdateProfile(uid, id, "mentor_id", mentor)
    \/ \E mentor \in Users, director \in Users : AdminSetDirector(mentor, director)
    \/ ParticipantRequests

SpecParticipants == Init /\ [][NextParticipants]_vars

\* ------------------------------------------------------- sending a message
\* INSERT INTO audio_messages (id, conversation_id, sender_id, audio_url,
\* duration) by requester uid, with the columns the client names: the WITH
\* CHECK policy, then NOT NULL of audio_url (duration is a number in every
\* request of the client), the primary key and the foreign keys.
InsertMessageRowRequest(uid, id, conv, sender, audio_url, duration) ==
    LET row == [id |-> id, conversation_id |-> conv, sender_id |-> sender]
    IN  IF ~MessageInsertPolicy(uid, row, conversation_participants)
        THEN [result |-> "denied", audio_messages |-> audio_messages]
        ELSE IF \/ audio_url = NULL
                \/ row.id \in {m.id : m \in audio_messages}
                \/ conv \notin {c.id : c \in conversations}
                \/ sender \notin DOMAIN profiles
        THEN [result |-> "error", audio_messages |-> audio_messages]
        ELSE [result |-> "ok", audio_messages |-> audio_messages \cup {row}]

\* crypto.randomUUID(): an id that no message, object or send has.
NewMessageId ==
    FreshId(MsgIds, {m.id : m \in audio_messages} \cup {o.name : o \in storage_objects}
                       \cup {s.messageId : s \in sends})

\* `${conversationId}/${messageId}.mp3`
FilePath(conversationId, messageId) ==
    ToString(conversationId) \o "/" \o ToString(messageId) \o ".mp3"

\* sendVoiceMessage / the voice branch of sendMessage, up to the answer of the
\* upload: the blob goes to 'voices' under conversationId/messageId, owned by
\* the signed-in user.  An uploadError is thrown and ends the send.
SendVoiceUploadRequest(user, conversationId) ==
    LET messageId == NewMessageId
        r == UploadObjectRequest(user, "voices", conversationId, messageId, user)
    IN  [result |-> r.result,
         storage_objects |-> r.storage_objects,
         sends |-> IF r.result = "ok"
                   THEN sends \cup {[user |-> user, conversationId |-> conversationId,
                                     messageId |-> messageId]}
                   ELSE sends]

\* ... and from there on: the record of the message is inserted with the id
\* of the path.  A messageError is thrown, caught and reported; the catch
\* block does nothing about the object already stored.
SendVoiceInsertRequest(s, duration) ==
    LET r == InsertMessageRowRequest(s.user, s.messageId, s.conversationId, s.user,
                                     FilePath(s.conversationId, s.messageId), duration)
    IN  [result |-> r.result, audio_messages |-> r.audio_messages,
         sends |-> sends \ {s}]

\* The text branch of sendMessage: one insert, with text_transcript, duration 0
\* and audio_url null; id is left to its default, gen_random_uuid().
SendTextRequest(user, conversationId) ==
    InsertMessageRowRequest(user, FreshId(MsgIds, {m.id : m \in audio_messages}),
                            conversationId, user, NULL, 0)

SendVoiceUpload(user, conversationId) ==
    /\ Cardinality(storage_objects) < MaxObjects
    /\ Cardinality(audio_messages) + Cardinality(sends) < MaxMessages
    /\ Cardinality(sends) < MaxSends
    /\ LET r == SendVoiceUploadRequest(user, conversationId)
       IN  /\ storage_objects' = r.storage_objects
           /\ sends' = r.sends
    /\ UNCHANGED <<profiles, conversations, conversation_participants,
                   audio_messages, bookmarks, favorites, profileUpdates,
                   auth_users, folders, folder_items, flows, views,
                   componentVars>>

SendVoiceInsert(s) ==
    /\ LET r == SendVoiceInsertRequest(s, 0)
       IN  /\ audio_messages' = r.audio_messages
           /\ sends' = r.sends
    /\ UNCHANGED <<profiles, conversations, conversation_participants,
                   bookmarks, favorites, profileUpdates, lifecycleVars, flows, views,
                   componentVars>>

SendText(user, conversationId) ==
    /\ Cardinality(audio_messages) + Cardinality(sends) < MaxMessages
    /\ audio_messages' = SendTextRequest(user, conversationId).audio_messages
    /\ UNCHANGED clientVars
    /\ UNCHANGED <<profiles, conversations, conversation_participants,
                   bookmarks, favorites, profileUpdates, lifecycleVars>>

SendRequests ==
    \/ \E user \in Users, conversationId \in ConvIds :
         SendVoiceUpload(user, conversationId)
    \/ \E s \in sends : SendVoiceInsert(s)
    \/ \E user \in Users, conversationId \in ConvIds :
         SendText(user, conversationId)

\* Messages as the application sends them, in conversations it opened, while
\* the administration reassigns directors and removes identities.
NextSend ==
    \/ AppConversations
    \/ SendRequests
    \/ \E mentor \in Users, director \in Users : AdminSetDirector(mentor, director)
    \/ \E id \in Users : AdminDeleteIdentity(id)

SpecSend == Init /\ [][NextSend]_vars

\* ---------------------------------------------------------- Messages view
\* An optional id (a state that is null or an id) is the set of at most one id.
\* The component Messages as it is after mounting for contactId with the
\* signed-in user: conversationId null, no messages, the fetch started; the
\* effect, which read conversationId = null, set no subscription up.
MessagesView(user, contactId) ==
    [user |-> user, contactId |-> contactId, pc |-> "select",
     conversationId |-> {}, subscription |-> {}, joined |-> FALSE,
     before |-> {}, delivered |-> {}, messages |-> EmptyBag]

\* The conversations the first query of fetchMessages returns for user: those
\* between user and contactId, in either orientation, that user may see.
ExistingConversations(user, contactId) ==
    {c \in SelectConversations(user) :
        \/ (c.client_id = user /\ c.mentor_id = contactId)
        \/ (c.client_id = contactId /\ c.mentor_id = user)}

\* The ids of the messages of a conversation that user may read.
MessageIdsOf(user, conversationId) ==
    {m.id : m \in {x \in SelectMessages(user) : x.conversation_id = conversationId}}

\* The insert events of a subscribed view v that the server still has to
\* push: the messages of the channel's conversation, readable by the user,
\* inserted since the channel was joined and not pushed yet.
PendingEvents(v) ==
    IF v.joined
    THEN {m \in UNION {MessageIdsOf(v.user, c) : c \in v.subscription} :
             m \notin v.before /\ m \notin v.delivered}
    ELSE {}

\* Navigation to /messages/:contactId from the contacts page.
MountMessages(user, contactId) ==
    /\ Len(flows) < MaxFlows
    /\ user \in DOMAIN profiles
    /\ contactId \in Contacts(user)
    /\ flows' = Append(flows, MessagesView(user, contactId))
    /\ UNCHANGED <<dbVars, sends, views, componentVars>>

\* fetchMessages, the query for an existing conversation (limit 1): one of
\* the rows found becomes foundConversationId, and conversationId with it;
\* with none found the insert comes next.
FindConversation(i) ==
    /\ flows[i].pc = "select"
    /\ LET existingConv == ExistingConversations(flows[i].user, flows[i].contactId)
       IN  IF existingConv = {}
           THEN flows' = [flows EXCEPT ![i].pc = "insert"]
           ELSE \E c \in existingConv :
                   flows' = [flows EXCEPT ![i].pc = "fetch",
                                          ![i].conversationId = {c.id}]
    /\ UNCHANGED <<dbVars, sends, views, componentVars>>

\* fetchMessages, the insert of a new conversation with client_id = user and
\* mentor_id = contactId; a createError is thrown and shown as the error of
\* the view.
CreateNewConversation(i) ==
    /\ flows[i].pc = "insert"
    /\ LET r == InsertConversationRequest(flows[i].user, flows[i].user, flows[i].contactId)
       IN  /\ conversations' = r.conversations
           /\ conversation_participants' = r.conversation_participants
           /\ flows' = IF r.result = "ok"
                       THEN [flows EXCEPT ![i].pc = "fetch",
                                          ![i].conversationId = {r.id}]
                       ELSE [flows EXCEPT ![i].pc = "error"]
    /\ UNCHANGED <<profiles, audio_messages, bookmarks, favorites, profileUpdates,
                   lifecycleVars, sends, views, componentVars>>

\* fetchMessages, the query for the messages of the conversation and
\* setMessages with its rows.
FetchMessages(i) ==
    /\ flows[i].pc = "fetch"
    /\ flows' = [flows EXCEPT
          ![i].pc = "done",
          ![i].messages =
              SetToBag(UNION {MessageIdsOf(flows[i].user, c) : c \in flows[i].conversationId})]
    /\ UNCHANGED <<dbVars, sends, views, componentVars>>

\* The effect runs again (its dependencies are contactId and user; here the
\* store hands out a new user object for the same user): the clean-up
\* unsubscribes, fetchMessages starts again, and a channel is subscribed for
\* the conversationId the component holds in this render, if it holds one.
RerunEffect(i) ==
    /\ flows[i].pc \in {"done", "error"}
    /\ flows' = [flows EXCEPT ![i].pc = "select",
                              ![i].subscription = flows[i].conversationId,
                              ![i].joined = FALSE,
                              ![i].before = {},
                              ![i].delivered = {}]
    /\ UNCHANGED <<dbVars, sends, views, componentVars>>

\* The server joins the channel a view subscribed: inserts from now on are
\* pushed to it.
JoinChannel(i) ==
    /\ flows[i].subscription # {}
    /\ ~flows[i].joined
    /\ flows' = [flows EXCEPT
          ![i].joined = TRUE,
          ![i].before = {m.id : m \in {x \in audio_messages :
                                          x.conversation_id \in flows[i].subscription}}]
    /\ UNCHANGED <<dbVars, sends, views, componentVars>>

\* The handler of an insert event: the sender's profile is read and the new
\* row is appended to messages.
DeliverInsert(i, m) ==
    /\ m \in PendingEvents(flows[i])
    /\ flows' = [flows EXCEPT ![i].delivered = @ \cup {m},
                              ![i].messages = @ (+) SetToBag({m})]
    /\ UNCHANGED <<dbVars, sends, views, componentVars>>

\* MessageInput is rendered once the view holds a conversationId, and sends
\* for the signed-in user into that conversation.
ViewSendVoice(i) ==
    \E c \in flows[i].conversationId : SendVoiceUpload(flows[i].user, c)

ViewSendText(i) ==
    \E c \in flows[i].conversationId : SendText(flows[i].user, c)

MessagesViewSteps ==
    \/ \E user \in Users, contactId \in Users : MountMessages(user, contactId)
    \/ \E i \in DOMAIN flows : FindConversation(i)
    \/ \E i \in DOMAIN flows : CreateNewConversation(i)
    \/ \E i \in DOMAIN flows : FetchMessages(i)
    \/ \E i \in DOMAIN flows : RerunEffect(i)
    \/ \E i \in DOMAIN flows : JoinChannel(i)
    \/ \E i \in DOMAIN flows, m \in MsgIds : DeliverInsert(i, m)
    \/ \E i \in DOMAIN flows : ViewSendVoice(i)
    \/ \E i \in DOMAIN flows : ViewSendText(i)
    \/ \E s \in sends : SendVoiceInsert(s)

\* Messages views of the application, concurrent with each other.
NextMessagesView == MessagesViewSteps

\* The find-or-create flows of concurrent Messages views, while directors are
\* reassigned.
NextFlows ==
    \/ \E user \in Users, contactId \in Users : MountMessages(user, contactId)
    \/ \E i \in DOMAIN flows : FindConversation(i)
    \/ \E i \in DOMAIN flows : CreateNewConversation(i)
    \/ \E i \in DOMAIN flows : FetchMessages(i)
    \/ \E mentor \in Users, director \in Users : AdminSetDirector(mentor, director)

SpecFlows == Init /\ [][NextFlows]_vars

SpecMessagesView == Init /\ [][NextMessagesView]_vars

\* ------------------------------------------------------ Conversation view
\* The component Conversation as it is after mounting at /conversations/:id
\* with the signed-in user: the effect has sent the query for the messages
\* and asked for the channel of the conversation's inserts.
ConversationView(user, conversationId) ==
    [user |-> user, conversationId |-> conversationId, pc |-> "query",
     snapshot |-> {}, subscription |-> {conversationId}, joined |-> FALSE,
     before |-> {}, delivered |-> {}, messages |-> EmptyBag]

\* Navigation to one of the user's conversations.
MountConversation(user, conversationId) ==
    /\ Len(views) < MaxViews
    /\ conversationId \in {c.id : c \in SelectConversations(user)}
    /\ views' = Append(views, ConversationView(user, conversationId))
    /\ UNCHANGED <<dbVars, sends, flows, componentVars>>

\* The server answers the query of fetchMessages from the table as it is.
RunQuery(i) ==
    /\ views[i].pc = "query"
    /\ views' = [views EXCEPT
          ![i].pc = "answered",
          ![i].snapshot = MessageIdsOf(views[i].user, views[i].conversationId)]
    /\ UNCHANGED <<dbVars, sends, flows, componentVars>>

\* fetchMessages continues with the answer: setMessages(processedMessages).
ReceiveMessages(i) ==
    /\ views[i].pc = "answered"
    /\ views' = [views EXCEPT ![i].pc = "fetched",
                              ![i].messages = SetToBag(views[i].snapshot)]
    /\ UNCHANGED <<dbVars, sends, flows, componentVars>>

\* The server joins the channel 'conversation-messages' of the view.
JoinConversationChannel(i) ==
    /\ ~views[i].joined
    /\ views' = [views EXCEPT
          ![i].joined = TRUE,
          ![i].before = {m.id : m \in {x \in audio_messages :
                                          x.conversation_id \in views[i].subscription}}]
    /\ UNCHANGED <<dbVars, sends, flows, componentVars>>

\* The handler of an insert event: setMessages(prev => [...prev, new]).
DeliverConversationInsert(i, m) ==
    /\ m \in PendingEvents(views[i])
    /\ views' = [views EXCEPT ![i].delivered = @ \cup {m},
                              ![i].messages = @ (+) SetToBag({m})]
    /\ UNCHANGED <<dbVars, sends, flows, componentVars>>

ConversationViewSteps ==
    \/ \E user \in Users, conversationId \in ConvIds :
         MountConversation(user, conversationId)
    \/ \E i \in DOMAIN views : RunQuery(i)
    \/ \E i \in DOMAIN views : ReceiveMessages(i)
    \/ \E i \in DOMAIN views : JoinConversationChannel(i)
    \/ \E i \in DOMAIN views, m \in MsgIds : DeliverConversationInsert(i, m)

\* A Conversation view of the application while messages are inserted into
\* the conversations.
NextConversationView ==
    \/ AppConversations
    \/ \E uid \in Users, conv \in ConvIds, sender \in Users :
         InsertMessage(uid, conv, sender)
    \/ ConversationViewSteps

SpecConversationView == Init /\ [][NextConversationView]_vars

\* --------------------------------------------------------------- auth store
\* fetchProfile up to its await: without a user it returns; with one it sets
\* isLoading and sends the query for the profile of that user.
StartFetchProfile(store) ==
    IF store.user = {}
    THEN store
    ELSE [store EXCEPT !.isLoading = TRUE, !.fetching = @ \cup store.user]

\* setSession(session): session is null or the session of one user.
SetSession(session) ==
    /\ authStore.sessions < MaxSessions
    /\ LET set == [authStore EXCEPT !.session = session, !.user = session,
                                    !.sessions = @ + 1]
       IN  authStore' = IF session # {}
                        THEN StartFetchProfile(set)
                        ELSE [set EXCEPT !.profile = {}]
    /\ UNCHANGED <<dbVars, sends, flows, views, recorder>>

ClearSession(store) ==
    [store EXCEPT !.session = {}, !.user = {}, !.profile = {}]

\* clearSession() called by a component.
CallClearSession ==
    /\ authStore.session # {}
    /\ authStore' = ClearSession(authStore)
    /\ UNCHANGED <<dbVars, sends, flows, views, recorder>>

\* signOut up to its await ...
SignOutStart ==
    /\ authStore.session # {}
    /\ ~authStore.signingOut
    /\ authStore' = [authStore EXCEPT !.isLoading = TRUE, !.signingOut = TRUE]
    /\ UNCHANGED <<dbVars, sends, flows, views, recorder>>

\* ... and after it: isLoading false, clearSession().
SignOutDone ==
    /\ authStore.signingOut
    /\ authStore' = ClearSession([authStore EXCEPT !.isLoading = FALSE,
                                                   !.signingOut = FALSE])
    /\ UNCHANGED <<dbVars, sends, flows, views, recorder>>

\* fetchProfile after its await, for the user it read before: the row of
\* profiles with that id (every profile is readable) becomes the profile of
\* the store; an error (no such row) is logged.  isLoading false.
FetchProfileReturns(id) ==
    /\ id \in authStore.fetching
    /\ authStore' = [authStore EXCEPT
          !.fetching = @ \ {id},
          !.profile = IF id \in DOMAIN profiles THEN {id} ELSE @,
          !.isLoading = FALSE]
    /\ UNCHANGED <<dbVars, sends, flows, views, recorder>>

AuthStoreSteps ==
    \/ \E session \in {{}} \cup {{u} : u \in Users} : SetSession(session)
    \/ CallClearSession
    \/ SignOutStart
    \/ SignOutDone
    \/ \E id \in Users : FetchProfileReturns(id)

\* The auth store under the session events of the application.
NextAuthStore == AuthStoreSteps

SpecAuthStore == Init /\ [][NextAuthStore]_vars

\* ---------------------------------------------------------------- recorders
\* AudioRecorder is mounted by the Conversation view, MessageInput by the
\* Messages view, each for the signed-in user and the conversation of the view.
MountRecorder(component, user, conversationId) ==
    /\ recorder.component = "none"
    /\ recorder' = [recorder EXCEPT !.component = component, !.user = user,
                                    !.conversationId = conversationId]
    /\ UNCHANGED <<dbVars, sends, flows, views, authStore>>

\* The cleanup of the effect keyed on [isRecording], run with the isRecording
\* of the render that installed it: the interval of timerRef is cleared, in
\* MessageInput the timeout of recordingTimeoutRef too, and the MediaRecorder
\* is stopped if that render was recording.
EffectCleanup(r, isRecording) ==
    [r EXCEPT
       !.timerRef = FALSE,
       !.recordingTimeoutRef = IF r.component = "MessageInput" THEN FALSE ELSE @,
       !.mediaRecorder = IF isRecording /\ @ = "recording" THEN "inactive" ELSE @,
       !.stopEvent = IF isRecording /\ r.mediaRecorder = "recording"
                     THEN {r.elapsed} ELSE @]

\* The render after a handler: when isRecording changed, the cleanup of the
\* effect of the previous render runs before the effect is installed again.
Render(old, new) ==
    IF old.isRecording # new.isRecording
    THEN EffectCleanup(new, old.isRecording)
    ELSE new

\* stopRecording, with the isRecording of the render it was created in.
StopRecording(r, isRecording) ==
    IF r.mediaRecorder # "none" /\ isRecording
    THEN [r EXCEPT
            !.mediaRecorder = "inactive",
            !.stopEvent = IF r.mediaRecorder = "recording" THEN {r.elapsed} ELSE @,
            !.isRecording = FALSE,
            !.timerRef = FALSE,
            !.recordingTimeoutRef = FALSE]
    ELSE r

\* The start button (shown when not recording and without a blob; disabled
\* in MessageInput while sending): startRecording up to its await.
StartRecording ==
    /\ recorder.component # "none"
    /\ ~recorder.isRecording /\ recorder.audioBlob = {}
    /\ recorder.component = "MessageInput" => ~recorder.isSending
    /\ ~recorder.starting /\ recorder.stopEvent = {}
    /\ recorder' = [recorder EXCEPT !.starting = TRUE]
    /\ UNCHANGED <<dbVars, sends, flows, views, authStore>>

\* getUserMedia is refused: the catch block reports it.
GetUserMediaRejects ==
    /\ recorder.starting
    /\ recorder' = [recorder EXCEPT !.starting = FALSE]
    /\ UNCHANGED <<dbVars, sends, flows, views, authStore>>

\* getUserMedia answers with a stream: a MediaRecorder is created and
\* started, isRecording true, recordingTime 0, the interval is scheduled and,
\* in MessageInput, the timeout of 15 minutes; then the component renders.
GetUserMediaResolves ==
    /\ recorder.starting
    /\ recorder' = Render(recorder,
          [recorder EXCEPT
             !.starting = FALSE,
             !.mediaRecorder = "recording",
             !.elapsed = 0, !.ticks = 0,
             !.isRecording = TRUE,
             !.recordingTime = 0,
             !.timerRef = TRUE,
             !.recordingTimeoutRef = (recorder.component = "MessageInput")])
    /\ UNCHANGED <<dbVars, sends, flows, views, authStore>>

\* What the timers do while d milliseconds pass.  The interval fires once a
\* second: updateTimer of AudioRecorder sets recordingTime to the whole
\* seconds since startTimeRef, the callback of MessageInput adds one.  The
\* timeout fires at 15 minutes and calls the stopRecording of the render
\* startRecording belongs to, in which isRecording is false.
TimersElapse(r, d) ==
    LET fired == ((r.elapsed + d) \div SecondMs) - (r.elapsed \div SecondMs)
        timed == [r EXCEPT
                    !.recordingTime =
                        IF r.timerRef /\ fired > 0
                        THEN IF r.component = "AudioRecorder"
                             THEN (r.elapsed + d) \div SecondMs
                             ELSE @ + fired
                        ELSE @]
        due == r.recordingTimeoutRef /\ r.elapsed + d >= RecordingLimitMs
        stopped == IF due
                   THEN StopRecording([timed EXCEPT !.recordingTimeoutRef = FALSE,
                                                    !.elapsed = RecordingLimitMs],
                                      FALSE)
                   ELSE timed
    IN  IF stopped.mediaRecorder = "recording"
        THEN [stopped EXCEPT !.elapsed = r.elapsed + d]
        ELSE stopped

\* Time passes while the MediaRecorder records.
Advance(d) ==
    /\ recorder.mediaRecorder = "recording"
    /\ recorder.ticks < MaxTicks
    /\ recorder' = Render(recorder,
          [TimersElapse(recorder, d) EXCEPT !.ticks = @ + 1])
    /\ UNCHANGED <<dbVars, sends, flows, views, authStore>>

\* The stop button (shown while isRecording).
ClickStop ==
    /\ recorder.isRecording
    /\ recorder' = Render(recorder, StopRecording(recorder, recorder.isRecording))
    /\ UNCHANGED <<dbVars, sends, flows, views, authStore>>

\* mediaRecorder.onstop: the chunks become the blob.
OnStop ==
    /\ recorder.stopEvent # {}
    /\ recorder' = [recorder EXCEPT !.audioBlob = recorder.stopEvent,
                                    !.stopEvent = {}]
    /\ UNCHANGED <<dbVars, sends, flows, views, authStore>>

\* The discard button (shown when not recording and with a blob):
\* cancelRecording.
CancelRecording ==
    /\ ~recorder.isRecording /\ recorder.audioBlob # {}
    /\ recorder' = Render(recorder,
          [StopRecording(recorder, recorder.isRecording) EXCEPT
             !.audioBlob = {}, !.recordingTime = 0])
    /\ UNCHANGED <<dbVars, sends, flows, views, authStore>>

\* The send button (shown with the discard button, disabled while
\* isSending): sendVoiceMessage / sendMessage up to the upload, with the
\* audioBlob and the recordingTime of the render of the button.
SendVoiceMessage ==
    /\ ~recorder.isRecording /\ recorder.audioBlob # {}
    /\ ~recorder.isSending
    /\ recorder' = [recorder EXCEPT
          !.isSending = TRUE,
          !.send = {[phase |-> "upload", messageId |-> 0,
                     audioBlob |-> CHOOSE b \in recorder.audioBlob : TRUE,
                     duration |-> recorder.recordingTime]}]
    /\ UNCHANGED <<dbVars, sends, flows, views, authStore>>

\* The upload answers.  An uploadError is thrown: catch reports it and
\* finally sets isSending false.
UploadAnswers(s) ==
    /\ s \in recorder.send /\ s.phase = "upload"
    /\ Cardinality(storage_objects) < MaxObjects
    /\ Cardinality(audio_messages) + Cardinality(sends) < MaxMessages
    /\ Cardinality(sends) < MaxSends
    /\ LET r == SendVoiceUploadRequest(recorder.user, recorder.conversationId)
       IN  /\ storage_objects' = r.storage_objects
           /\ sends' = r.sends
           /\ recorder' =
                IF r.result = "ok"
                THEN [recorder EXCEPT
                        !.send = {[s EXCEPT !.phase = "insert",
                                            !.messageId = NewMessageId]}]
                ELSE [recorder EXCEPT !.send = {}, !.isSending = FALSE]
    /\ UNCHANGED <<profiles, conversations, conversation_participants,
                   audio_messages, bookmarks, favorites, profileUpdates,
                   auth_users, folders, folder_items, flows, views, authStore>>

\* The insert answers.  Without a messageError the blob is cleared,
\* recordingTime is 0 and onMessageSent is called; with one, catch reports
\* it.  finally sets isSending false.
InsertAnswers(s) ==
    /\ s \in recorder.send /\ s.phase = "insert"
    /\ LET q == [user |-> recorder.user, conversationId |-> recorder.conversationId,
                 messageId |-> s.messageId]
           r == SendVoiceInsertRequest(q, s.duration)
       IN  /\ q \in sends
           /\ audio_messages' = r.audio_messages
           /\ sends' = r.sends
           /\ recorder' =
                IF r.result = "ok"
                THEN [recorder EXCEPT !.send = {}, !.isSending = FALSE,
                                      !.audioBlob = {}, !.recordingTime = 0,
                                      !.onMessageSent = @ + 1]
                ELSE [recorder EXCEPT !.send = {}, !.isSending = FALSE]
    /\ UNCHANGED <<profiles, conversations, conversation_participants,
                   bookmarks, favorites, profileUpdates, lifecycleVars, flows, views,
                   authStore>>

RecorderSteps ==
    \/ \E component \in {"AudioRecorder", "MessageInput"}, user \in Users,
          conversationId \in ConvIds :
            MountRecorder(component, user, conversationId)
    \/ StartRecording
    \/ GetUserMediaRejects
    \/ GetUserMediaResolves
    \/ \E d \in {SecondMs, RecordingLimitMs} : Advance(d)
    \/ ClickStop
    \/ OnStop
    \/ CancelRecording
    \/ SendVoiceMessage
    \/ \E s \in recorder.send : UploadAnswers(s)
    \/ \E s \in recorder.send : InsertAnswers(s)

\* A recorder in the application: conversations are opened from the contact
\* list, and the recorder is used.
NextRecorder ==
    \/ AppConversations
    \/ RecorderSteps

SpecRecorder == Init /\ [][NextRecorder]_vars

\* ------------------------------------------------------------ properties
RowsOf(c) == ParticipantsOf(conversation_participants, c.id)

HasRow(conv_uuid, user) ==
    \E r \in conversation_participants :
        r.conversation_id = conv_uuid /\ r.user_id = user

DirectorOf(profs, user) ==
    IF user \in DOMAIN profs THEN profs[user].director_id ELSE NULL

DirectorRows(parts, conv_uuid) ==
    {r \in ParticipantsOf(parts, conv_uuid) : r.role = "training_director"}

\* The rows the creation of c must leave, given the profiles at that moment.
ExpectedParticipants(c, profs) ==
    {ParticipantRow(c.id, c.client_id, "client"),
     ParticipantRow(c.id, c.mentor_id, "mentor")}
    \cup (IF DirectorOf(profs, c.mentor_id) # NULL
          THEN {ParticipantRow(c.id, DirectorOf(profs, c.mentor_id), "training_director")}
          ELSE {})

\* C1: in the step that creates a conversation, the participants rows of the
\* new conversation are exactly its client as 'client', its mentor as 'mentor'
\* and, iff the mentor's director_id is non-null in that step, that director
\* as 'training_director': two rows (of two users) without a director, three
\* rows (of three users) with one.
C1_MaterializedAtCreation ==
    [][\A c \in conversations' \ conversations :
          LET rows == ParticipantsOf(conversation_participants', c.id)
          IN  /\ rows = ExpectedParticipants(c, profiles)
              /\ Cardinality({r.user_id : r \in rows}) = Cardinality(rows)
              /\ Cardinality(rows) =
                    IF DirectorOf(profiles, c.mentor_id) = NULL THEN 2 ELSE 3]_vars

C1_Witness ==
    \E c \in conversations :
        /\ Cardinality(RowsOf(c)) = 3
        /\ \E r \in RowsOf(c) : r.role = "training_director"

\* C2: a conversation row exists iff its client and mentor participants rows
\* exist (no row of a conversation that does not exist, no conversation
\* without both rows), and an INSERT INTO conversations in which an insert of
\* the trigger fails persists nothing: conversations and participants are
\* left as they were.
C2_AtomicCreation ==
    /\ \A c \in conversations :
          /\ ParticipantRow(c.id, c.client_id, "client") \in conversation_participants
          /\ ParticipantRow(c.id, c.mentor_id, "mentor") \in conversation_participants
    /\ \A r \in conversation_participants :
          \E c \in conversations : c.id = r.conversation_id
    /\ \A client \in Users, mentor \in Users :
          LET s == InsertConversation(NewConversationRow(client, mentor), profiles,
                                      conversations, conversation_participants)
          IN  ~s.ok =>
                 /\ s.conversations = conversations
                 /\ s.conversation_participants = conversation_participants

\* A conversation exists, and a creation whose trigger fails (the mentor's
\* director is the client, or client and mentor are the same) is at hand.
C2_Witness ==
    /\ conversations # {}
    /\ \E uid \in Users, client \in Users, mentor \in Users :
          /\ client # mentor
          /\ InsertConversationRequest(uid, client, mentor).result = "error"

\* The ground-truth membership predicate over the live hierarchy.
isMember(P, c, profs) ==
    \/ P = c.client_id
    \/ P = c.mentor_id
    \/ (P # NULL /\ P = DirectorOf(profs, c.mentor_id))

\* C4: in the step that creates a conversation C, for every principal P the
\* hierarchy predicate (P is C's client, C's mentor or the director of the
\* mentor's profile) holds iff C has a participants row for P.
C4_HierarchyAgreesAtCreation ==
    [][\A c \in conversations' \ conversations : \A P \in Users :
          isMember(P, c, profiles)
             <=> \E r \in conversation_participants' :
                    r.conversation_id = c.id /\ r.user_id = P]_vars

C4_Witness ==
    \E c \in conversations : \E P \in Users :
        /\ P \notin {c.client_id, c.mentor_id}
        /\ isMember(P, c, profiles)
        /\ HasRow(c.id, P)

\* C5 as stated: every conversation has exactly one 'client' row, exactly one
\* 'mentor' row, at most one 'training_director' row, and a director row iff
\* its mentor has a non-null director_id now.
C5_RolesFollowCurrentDirector ==
    \A c \in conversations :
        /\ Cardinality({r \in RowsOf(c) : r.role = "client"}) = 1
        /\ Cardinality({r \in RowsOf(c) : r.role = "mentor"}) = 1
        /\ Cardinality(DirectorRows(conversation_participants, c.id)) <= 1
        /\ (DirectorRows(conversation_participants, c.id) # {}
               <=> DirectorOf(profiles, c.mentor_id) # NULL)

C5_ClientAndMentorRows ==
    \A c \in conversations :
        /\ {r \in RowsOf(c) : r.role = "client"}
              = {ParticipantRow(c.id, c.client_id, "client")}
        /\ {r \in RowsOf(c) : r.role = "mentor"}
              = {ParticipantRow(c.id, c.mentor_id, "mentor")}

C5_DirectorRowsStep ==
    /\ \A r \in conversation_participants' \ conversation_participants :
          r.role = "training_director" =>
             \E c \in conversations' :
                 c.id = r.conversation_id /\ r.user_id = DirectorOf(profiles, c.mentor_id)
    /\ \A c \in conversations' \ conversations :
          DirectorRows(conversation_participants', c.id) # {}
             <=> DirectorOf(profiles, c.mentor_id) # NULL
    /\ profiles' # profiles => conversation_participants' = conversation_participants

\* C5, amended: every conversation has exactly one 'client' row (its client)
\* and exactly one 'mentor' row (its mentor); a 'training_director' row is
\* written only for the user who is the mentor's director_id in that step, at
\* creation iff that director_id is non-null; and no profile update adds or
\* removes a row.
C5_RolesFollowDirectorAtMaterialization ==
    []C5_ClientAndMentorRows /\ [][C5_DirectorRowsStep]_vars

\* A conversation with two director rows: its director at creation and the
\* one the backfill found later.
C5_Witness ==
    \E c \in conversations :
        Cardinality(DirectorRows(conversation_participants, c.id)) = 2

\* C6: a step that changes a profile (a mentor's director_id among the
\* changes) leaves every participants row as it was, and with it what each
\* principal can read of the conversations: the previous director still sees
\* them and the new director sees no more than before.
C6_DirectorChangeKeepsParticipants ==
    [][profiles' # profiles =>
          /\ conversation_participants' = conversation_participants
          /\ \A uid \in Users :
                ConversationsVisibleTo(uid, conversations', profiles',
                                       conversation_participants')
                   = ConversationsVisibleTo(uid, conversations, profiles,
                                            conversation_participants)]_vars

\* A conversation whose director row is of a user who is no longer the
\* director of its mentor, who in turn has another director without a row.
C6_Witness ==
    \E c \in conversations :
        /\ \E r \in DirectorRows(conversation_participants, c.id) :
              r.user_id # DirectorOf(profiles, c.mentor_id)
        /\ DirectorOf(profiles, c.mentor_id) # NULL
        /\ ~HasRow(c.id, DirectorOf(profiles, c.mentor_id))

\* canCreate of the hierarchy resolver.
canCreate(requester, clientRef, mentorRef) ==
    \/ requester = clientRef
    \/ requester = mentorRef
    \/ (clientRef \in DOMAIN profiles /\ profiles[clientRef].mentor_id = requester)

\* C7: a conversation insert proposing (client_id, mentor_id) by requester R
\* passes the insert policy iff R is the client, R is the mentor, or the
\* client's profile has mentor_id = R; the insert of every other requester is
\* denied and leaves conversations and participants as they were.
C7_InsertPolicy ==
    \A R \in Users, client \in Users, mentor \in Users :
        /\ ConversationInsertPolicy(R, NewConversationRow(client, mentor), profiles)
              <=> canCreate(R, client, mentor)
        /\ ~canCreate(R, client, mentor) =>
              LET r == InsertConversationRequest(R, client, mentor)
              IN  /\ r.result = "denied"
                  /\ r.conversations = conversations
                  /\ r.conversation_participants = conversation_participants

\* A conversation that only its client's mentor could have opened with a
\* third user exists, next to requesters the policy turns away.
C7_Witness ==
    /\ \E c \in conversations :
          /\ c.client_id \in DOMAIN profiles
          /\ profiles[c.client_id].mentor_id \notin {NULL, c.client_id, c.mentor_id}
    /\ \E R \in Users, client \in Users, mentor \in Users :
          InsertConversationRequest(R, client, mentor).result = "denied"

\* C3: what a principal P reads is decided by the participants table alone:
\* P is shown a conversation row iff a participants row (C, P) exists, and a
\* message iff a participants row (conversation of the message, P) exists.
C3_ReadGatedByParticipants ==
    \A P \in Users :
        /\ SelectConversations(P) = {c \in conversations : HasRow(c.id, P)}
        /\ SelectMessages(P) = {m \in audio_messages : HasRow(m.conversation_id, P)}

\* A message in a conversation with a director row: that director reads it,
\* a training director without a row does not.
C3_Witness ==
    \E m \in audio_messages, r \in conversation_participants, D2 \in Users :
        /\ r.conversation_id = m.conversation_id
        /\ r.role = "training_director"
        /\ m \in SelectMessages(r.user_id)
        /\ profiles[D2].role = "training_director"
        /\ ~HasRow(m.conversation_id, D2)
        /\ m \notin SelectMessages(D2)

\* C8: an audio_messages insert by requester R into conversation C succeeds
\* only if R has a participants row for C and sender_id = R; by a non-member,
\* or with another sender_id, it is denied and the table stays as it was.
C8_MessageInsertPolicy ==
    \A R \in Users, conv \in ConvIds, sender \in Users :
        LET r == InsertMessageRequest(R, conv, sender)
        IN  /\ r.result = "ok" => (HasRow(conv, R) /\ sender = R)
            /\ (~HasRow(conv, R) \/ sender # R) =>
                  (r.result = "denied" /\ r.audio_messages = audio_messages)

\* A message was accepted, and its conversation has a non-member.
C8_Witness ==
    \E m \in audio_messages, P \in Users :
        /\ ~HasRow(m.conversation_id, P)
        /\ InsertMessageRequest(P, m.conversation_id, P).result = "denied"

\* C9: a delete of message M requested by P removes M only if P is M's
\* sender: for any other P, the other party and the director of M's
\* conversation included, M remains; the sender's own request removes it.
C9_OnlySenderDeletes ==
    \A P \in Users, id \in MsgIds :
        LET r == DeleteMessageRequest(P, id)
        IN  \A m \in audio_messages :
               /\ m.sender_id # P => m \in r.audio_messages
               /\ (m.id = id /\ m.sender_id = P /\ HasRow(m.conversation_id, P))
                     => m \notin r.audio_messages

\* A message whose conversation has a director row of a user who did not
\* send it.
C9_Witness ==
    \E m \in audio_messages, r \in conversation_participants :
        /\ r.conversation_id = m.conversation_id
        /\ r.role = "training_director"
        /\ r.user_id # m.sender_id
        /\ m \in DeleteMessageRequest(r.user_id, m.id).audio_messages

OthersRows(rows, user) == {x \in rows : x.user_id # user}

\* Requests of U2 on bookmarks and favorites: reads show U2's rows only; an
\* insert, update or delete leaves the rows of every other user as they were
\* and adds none in their name.
OwnerPrivateOnOwnTables(U2) ==
    /\ \A b \in SelectBookmarks(U2) : b.user_id = U2
    /\ \A f \in SelectFavorites(U2) : f.user_id = U2
    /\ \A message \in MsgIds, user \in Users, ts \in Timestamps :
          OthersRows(InsertBookmarkRequest(U2, message, user, ts).bookmarks, U2)
             = OthersRows(bookmarks, U2)
    /\ \A id \in BookmarkIds, user \in Users, ts \in Timestamps :
          OthersRows(UpdateBookmarkRequest(U2, id, user, ts).bookmarks, U2)
             = OthersRows(bookmarks, U2)
    /\ \A id \in BookmarkIds :
          OthersRows(DeleteBookmarkRequest(U2, id).bookmarks, U2)
             = OthersRows(bookmarks, U2)
    /\ \A user \in Users, message \in MsgIds :
          /\ OthersRows(InsertFavoriteRequest(U2, user, message).favorites, U2)
                = OthersRows(favorites, U2)
          /\ OthersRows(DeleteFavoriteRequest(U2, user, message).favorites, U2)
                = OthersRows(favorites, U2)
          /\ \A newUser \in Users :
                OthersRows(UpdateFavoriteRequest(U2, user, message, newUser).favorites, U2)
                   = OthersRows(favorites, U2)

\* C10 as stated: no request by U2, of any kind, reads, changes, removes or
\* adds a bookmark or favorite whose user_id is another user.
C10_NoRequestTouchesOthersRows ==
    \A U2 \in Users :
        /\ OwnerPrivateOnOwnTables(U2)
        /\ \A id \in MsgIds :
              LET r == DeleteMessageRequest(U2, id)
              IN  /\ OthersRows(r.bookmarks, U2) = OthersRows(bookmarks, U2)
                  /\ OthersRows(r.favorites, U2) = OthersRows(favorites, U2)

\* C10, amended: no request by U2 on the bookmarks or favorites tables reads,
\* changes, removes or adds a row whose user_id is another user; the rows of
\* other users that a request by U2 removes are those of a message U2 sent
\* and deletes (ON DELETE CASCADE), and no others.
C10_OwnerPrivateButCascade ==
    \A U2 \in Users :
        /\ OwnerPrivateOnOwnTables(U2)
        /\ \A id \in MsgIds :
              LET r == DeleteMessageRequest(U2, id)
                  mine == {m.id : m \in {x \in r.deleted : x.sender_id = U2}}
              IN  /\ r.bookmarks \subseteq bookmarks
                  /\ r.favorites \subseteq favorites
                  /\ \A b \in bookmarks \ r.bookmarks : b.message_id \in mine
                  /\ \A f \in favorites \ r.favorites : f.message_id \in mine

\* A bookmark and a favorite of users who did not send the message they mark.
C10_Witness ==
    /\ \E b \in bookmarks, m \in audio_messages :
          m.id = b.message_id /\ m.sender_id # b.user_id
    /\ \E f \in favorites, m \in audio_messages :
          m.id = f.message_id /\ m.sender_id # f.user_id

OwnsFolder(R, F) == \E f \in folders : f.id = F /\ f.owner_id = R

MemberOfMessage(R, M) ==
    \E m \in audio_messages : m.id = M /\ HasRow(m.conversation_id, R)

\* C11 as stated: a folder_items insert (F, M) by R succeeds iff F is owned by
\* R and R has a participants row for the conversation of M; otherwise it is
\* denied and no item is persisted.
C11_InsertIffOwnerAndMember ==
    \A R \in Users, F \in FolderIds, M \in MsgIds :
        LET r == InsertFolderItemRequest(R, F, M)
        IN  /\ r.result = "ok" <=> (OwnsFolder(R, F) /\ MemberOfMessage(R, M))
            /\ ~(OwnsFolder(R, F) /\ MemberOfMessage(R, M)) =>
                  (r.result = "denied" /\ r.folder_items = folder_items)

\* C11, amended: a folder_items insert (F, M) by R passes the policy iff F is
\* owned by R and R has a participants row for the conversation of M, and then
\* succeeds iff the folder does not hold M already (the primary key rejects
\* the duplicate, which changes nothing); otherwise it is denied and no item
\* is persisted.
C11_FolderItemInsert ==
    \A R \in Users, F \in FolderIds, M \in MsgIds :
        LET r == InsertFolderItemRequest(R, F, M)
            item == [folder_id |-> F, message_id |-> M]
        IN  /\ r.result # "denied" <=> (OwnsFolder(R, F) /\ MemberOfMessage(R, M))
            /\ r.result = "ok" <=>
                  (OwnsFolder(R, F) /\ MemberOfMessage(R, M) /\ item \notin folder_items)
            /\ r.result = "ok" => r.folder_items = folder_items \cup {item}
            /\ r.result # "ok" => r.folder_items = folder_items

\* A folder holds a message: its owner's insert went through and a second one
\* fails on the key, while a member of the conversation who does not own the
\* folder is denied.
C11_Witness ==
    \E i \in folder_items, R \in Users :
        /\ MemberOfMessage(R, i.message_id)
        /\ ~OwnsFolder(R, i.folder_id)
        /\ InsertFolderItemRequest(R, i.folder_id, i.message_id).result = "denied"
        /\ \E O \in Users :
              /\ OwnsFolder(O, i.folder_id)
              /\ InsertFolderItemRequest(O, i.folder_id, i.message_id).result = "error"

\* C12: an object of bucket 'voices' under the folder of conversation C is
\* read by P iff P has a participants row for C; an upload by P to a path
\* under C with declared owner O succeeds only if the bucket is 'voices', P
\* has a participants row for C and O = P; every other upload is denied and
\* stores nothing.
C12_StorageGatedByMembership ==
    /\ \A P \in Users, o \in storage_objects :
          o \in SelectObjects(P) <=> (o.bucket_id = "voices" /\ HasRow(o.folder, P))
    /\ \A P \in Users, bucket \in Buckets, folder \in PathFolders,
          name \in ObjectNames, O \in Users :
          LET r == UploadObjectRequest(P, bucket, folder, name, O)
              allowed == bucket = "voices" /\ HasRow(folder, P) /\ O = P
          IN  /\ r.result = "ok" => allowed
              /\ ~allowed => (r.result = "denied"
                               /\ r.storage_objects = storage_objects)

\* An object uploaded by a member of its conversation; a user without a row
\* for that conversation can neither read it nor upload next to it, and
\* another member cannot upload in the first one's name.
C12_Witness ==
    \E o \in storage_objects, P \in Users, Q \in Users :
        /\ o.bucket_id = "voices"
        /\ o \in SelectObjects(o.owner)
        /\ ~HasRow(o.folder, P)
        /\ o \notin SelectObjects(P)
        /\ HasRow(o.folder, Q)
        /\ Q # o.owner
        /\ UploadObjectRequest(Q, "voices", o.folder, o.name, o.owner).result = "denied"

\* C17: a conversation is immutable after creation: no UPDATE by any principal
\* changes the client_id or mentor_id of an existing conversation and no DELETE
\* by any principal removes a conversation row, its participants or its
\* messages.
C17_ConversationImmutable ==
    \A P \in Users, id \in ConvIds :
        /\ \A client \in Users, mentor \in Users :
              UpdateConversationRequest(P, id, client, mentor).conversations
                 = conversations
        /\ LET r == DeleteConversationRequest(P, id)
           IN  /\ r.conversations = conversations
               /\ r.conversation_participants = conversation_participants
               /\ r.audio_messages = audio_messages

\* A conversation with a message and three participants (client, mentor and
\* director), each of whom reads it and none of whom can delete it.
C17_Witness ==
    \E c \in conversations :
        /\ Cardinality(RowsOf(c)) = 3
        /\ \E m \in audio_messages : m.conversation_id = c.id
        /\ \A r \in RowsOf(c) :
              /\ c \in SelectConversations(r.user_id)
              /\ DeleteConversationRequest(r.user_id, c.id).deleted = {}

RoleOf(profs, user) ==
    IF user \in DOMAIN profs THEN profs[user].role ELSE NULL

C14_HierarchyRolesMatch ==
    \A p \in DOMAIN profiles :
        /\ (profiles[p].role = "client" /\ profiles[p].mentor_id # NULL)
              => RoleOf(profiles, profiles[p].mentor_id) = "mentor"
        /\ (profiles[p].role = "mentor" /\ profiles[p].director_id # NULL)
              => RoleOf(profiles, profiles[p].director_id) = "training_director"

\* C15: a profile update requested by R changes a profile only if R is its
\* owner, and then nothing but full_name: role, mentor_id and director_id
\* stay as they were whoever asks.
C15_OwnerChangesNameOnly ==
    \A R \in Users, id \in Users, field \in ProfileFields :
        \A value \in FieldValues(field) :
            LET r == UpdateProfileRequest(R, id, field, value)
            IN  \A p \in DOMAIN profiles :
                   /\ r.profiles[p] # profiles[p] => R = p
                   /\ r.profiles[p].role = profiles[p].role
                   /\ r.profiles[p].mentor_id = profiles[p].mentor_id
                   /\ r.profiles[p].director_id = profiles[p].director_id

\* C16: a conversation insert whose trigger produces the same (conversation,
\* user) pair twice (client_id = mentor_id, or the mentor's director is the
\* client or the mentor) does not fail: the conflict is absorbed and the
\* conversation is created.
C16_ConflictAbsorbed ==
    \A R \in Users, client \in DOMAIN profiles, mentor \in DOMAIN profiles :
        (/\ canCreate(R, client, mentor)
         /\ (client = mentor \/ DirectorOf(profiles, mentor) \in {client, mentor}))
           => InsertConversationRequest(R, client, mentor).result = "ok"

\* C18: the removal of an identity whose profile is the client or the mentor
\* of a conversation succeeds: identity and profile are gone, and so is every
\* conversation that referenced the profile, with its participants rows.
C18_IdentityRemovalCascades ==
    \A id \in auth_users :
        (\E c \in conversations : id \in {c.client_id, c.mentor_id}) =>
           LET r == DeleteIdentityRequest(id)
           IN  /\ r.result = "ok"
               /\ id \notin r.auth_users
               /\ id \notin DOMAIN r.profiles
               /\ \A c \in r.conversations : id \notin {c.client_id, c.mentor_id}
               /\ \A x \in r.conversation_participants :
                     \E c \in r.conversations : c.id = x.conversation_id

\* C19: every identity created through signUp has its profile (and, id being
\* the key of profiles, exactly one).
C19_IdentityHasProfile ==
    \A id \in auth_users \ Users : id \in DOMAIN profiles

\* Ids that no conversation and no message has.
AbsentConvId == MaxConversations + 1

AbsentMsgId == MaxMessages + 1

\* C20: for a caller P without a participants row, a request gives the same
\* result whether its target exists or not: the reads of a conversation and
\* its messages, a message insert into the conversation, and a bookmark, a
\* favorite or a folder-item insert on a message of it each end as the same
\* request does on an id that no row has.
C20_DenialHidesExistence ==
    \A P \in Users :
        /\ \A c \in conversations :
              ~HasRow(c.id, P) =>
                 /\ {x \in SelectConversations(P) : x.id = c.id}
                       = {x \in SelectConversations(P) : x.id = AbsentConvId}
                 /\ {m \in SelectMessages(P) : m.conversation_id = c.id}
                       = {m \in SelectMessages(P) : m.conversation_id = AbsentConvId}
                 /\ InsertMessageRequest(P, c.id, P).result
                       = InsertMessageRequest(P, AbsentConvId, P).result
        /\ \A m \in audio_messages :
              ~HasRow(m.conversation_id, P) =>
                 /\ \A ts \in Timestamps :
                       InsertBookmarkRequest(P, m.id, P, ts).result
                          = InsertBookmarkRequest(P, AbsentMsgId, P, ts).result
                 /\ InsertFavoriteRequest(P, P, m.id).result
                       = InsertFavoriteRequest(P, P, AbsentMsgId).result
                 /\ \A F \in FolderIds :
                       InsertFolderItemRequest(P, F, m.id).result
                          = InsertFolderItemRequest(P, F, AbsentMsgId).result

\* C27: no request inserts, updates or deletes a conversation_participants row
\* directly (whoever asks, for whatever row, the table is left as it was), and
\* in every step the participants rows of every existing conversation stay
\* the same: the members of a conversation never grow and a principal who has
\* no row in it gets none.
C27_MembershipFixed ==
    /\ [](\A uid \in Users, conv \in ConvIds, user \in Users, role \in Roles :
            /\ InsertParticipantRequest(uid, conv, user, role).result = "denied"
            /\ InsertParticipantRequest(uid, conv, user, role).conversation_participants
                  = conversation_participants
            /\ UpdateParticipantRequest(uid, conv, user, role).result = "none"
            /\ DeleteParticipantRequest(uid, conv, user).result = "none")
    /\ [][\A c \in conversations :
             ParticipantsOf(conversation_participants', c.id)
                = ParticipantsOf(conversation_participants, c.id)]_vars

\* A conversation with a principal outside it, who asks for a row of their own.
C27_Witness ==
    \E c \in conversations, P \in Users :
        /\ ~is_conversation_member(conversation_participants, P, c.id)
        /\ \E r \in conversation_participants : r.conversation_id = c.id
        /\ c.id \in ConvIds
        /\ InsertParticipantRequest(P, c.id, P, "client").result = "denied"

\* C22: a text message sent by a user with a participants row in the
\* conversation is persisted: the send succeeds and adds exactly one
\* audio_messages row, of that conversation and with the user as sender_id.
C22_TextMessagePersisted ==
    \A user \in Users, c \in conversations :
        HasRow(c.id, user) =>
           LET r == SendTextRequest(user, c.id)
           IN  /\ r.result = "ok"
               /\ \E m \in r.audio_messages \ audio_messages :
                     /\ r.audio_messages = audio_messages \cup {m}
                     /\ m.conversation_id = c.id
                     /\ m.sender_id = user

\* C21: once no send is under way, every object stored under 'voices' has
\* the audio_messages row of its path (conversation folder, message id), and
\* every message row has its object: a send that failed left neither alone.
C21_NoPartialSend ==
    sends = {} =>
       /\ \A o \in storage_objects :
             \E m \in audio_messages : m.conversation_id = o.folder /\ m.id = o.name
       /\ \A m \in audio_messages :
             \E o \in storage_objects : o.folder = m.conversation_id /\ o.name = m.id

C26_SubscribedOnceFound ==
    \A i \in DOMAIN flows :
        (flows[i].pc = "done" /\ flows[i].conversationId # {})
           => flows[i].subscription = flows[i].conversationId

\* C25: in a Conversation view whose fetch has completed and whose channel is
\* joined, once every insert event has been delivered and every message the
\* query did not return has had its event, the displayed list holds each
\* message of the conversation that the user may read exactly once.
C25_ListReconciled ==
    \A i \in DOMAIN views :
        LET v == views[i]
            all == MessageIdsOf(v.user, v.conversationId)
        IN  (/\ v.pc = "fetched"
             /\ v.joined
             /\ PendingEvents(v) = {}
             /\ all \subseteq v.snapshot \cup v.delivered)
               => /\ BagToSet(v.messages) = all
                  /\ \A m \in all : CopiesIn(m, v.messages) = 1

\* C28: in the auth store the profile never outlives the session: whenever
\* user is null, profile is null.
C28_ProfileNeedsUser ==
    authStore.user = {} => authStore.profile = {}

\* C30: while a recorder records, its one-second timer is scheduled and
\* recordingTime is the number of whole seconds recorded so far; the duration
\* sent with a voice message is the number of whole seconds of its blob.
C30_TimerRuns ==
    /\ recorder.isRecording =>
          /\ recorder.timerRef
          /\ recorder.recordingTime = recorder.elapsed \div SecondMs
    /\ \A s \in recorder.send : s.duration = s.audioBlob \div SecondMs

\* C23: no capture lasts longer than 15 minutes: a MediaRecorder that is
\* recording was started at most RecordingLimitMs ago.
C23_CaptureLimited ==
    recorder.mediaRecorder = "recording" => recorder.elapsed <= RecordingLimitMs

\* The states of a recorder, by its flags.
RecorderIdle(r)      == ~r.isRecording /\ r.audioBlob = {}
RecorderRecording(r) == r.isRecording
RecorderRecorded(r)  == r.audioBlob # {} /\ ~r.isSending
RecorderSending(r)   == r.audioBlob # {} /\ r.isSending

RecorderStates(r) ==
    {s \in {"idle", "recording", "recorded", "sending"} :
        \/ s = "idle" /\ RecorderIdle(r)
        \/ s = "recording" /\ RecorderRecording(r)
        \/ s = "recorded" /\ RecorderRecorded(r)
        \/ s = "sending" /\ RecorderSending(r)}

\* A step in which the send in flight ends, with or without onMessageSent.
SendEnds == recorder.send # {} /\ recorder'.send = {}
SendSucceeds == SendEnds /\ recorder'.onMessageSent # recorder.onMessageSent
SendFails == SendEnds /\ recorder'.onMessageSent = recorder.onMessageSent

\* C29: a recorder is always in exactly one of the states idle, recording,
\* recorded and sending; sending is entered only from recorded; a send that
\* succeeds ends in idle with the blob cleared, recordingTime 0 and one call
\* of onMessageSent; a send that fails ends in recorded with the blob
\* retained and isSending false; a discard from recorded ends in idle.
C29_RecorderStateMachine ==
    [][ /\ Cardinality(RecorderStates(recorder')) = 1
        /\ (RecorderSending(recorder') /\ ~RecorderSending(recorder))
              => RecorderRecorded(recorder)
        /\ SendSucceeds =>
              /\ RecorderIdle(recorder')
              /\ recorder'.recordingTime = 0
              /\ recorder'.onMessageSent = recorder.onMessageSent + 1
        /\ SendFails =>
              /\ RecorderRecorded(recorder')
              /\ recorder'.audioBlob = recorder.audioBlob
        /\ (RecorderRecorded(recorder) /\ recorder'.audioBlob = {} /\ ~SendEnds)
              => RecorderIdle(recorder')
      ]_vars

====
